---- MODULE Spec2Model ----
(***************************************************************************)
(* A model of the utility types of the aoc-2023 repository, starting with  *)
(* src/utils/dense_grid.rs: DenseGrid<T>, a row-major buffer with a        *)
(* declared width, a derived height and an optional out-of-bounds filler.  *)
(*                                                                         *)
(* One DenseGrid value is built by one of the four constructors and then   *)
(* read and updated by point operations.  Every action records the call it *)
(* made and what the call returned in `last`.                              *)
(***************************************************************************)
EXTENDS Integers, Sequences, FiniteSets, TLC

\* ------------------------------------------------------------------ bounds

\* Longest text block handed to parse, in characters.
MaxBlock == 4
\* Coordinates are drawn from -1..MaxCoord on both axes.
MaxCoord == 3
\* new_filled is called with width and height in 0..MaxDim.
MaxDim == 3
\* from_rows / from_columns get batches of at most MaxRows sequences ...
MaxRows == 3
\* ... of at most MaxRowLen cells each ...
MaxRowLen == 2
\* ... and no constructor input describes more than MaxItems cells.
MaxItems == 6

\* Corners of a rectangle range have their coordinates in -1..MaxRect.
MaxRect == 1

\* The coordinates of an XY are i64; the model keeps two's-complement
\* integers of IntBits bits, so that the least value has no negation.
IntBits == 3
\* A vector is turned at most MaxTurns times in a row.
MaxTurns == 4
\* Day 18: an input holds at most MaxMoves moves of 1..MaxAmount tiles each.
MaxMoves == 6
MaxAmount == 2
\* Day 16: a board has at most MaxSide columns and MaxSide rows when one
\* beam is followed, and at most MaxForkTiles tiles when the edge beams are
\* run in parallel.
MaxSide == 2
MaxForkTiles == 2
\* Day 14: a line handed to move_all_the_way has at most MaxLine tiles, a
\* platform at most MaxPlatform.
MaxLine == 5
MaxPlatform == 4
\* Day 20: the flip-flop has at most MaxOutputs outputs and handles at most
\* MaxLows Low pulses.
MaxOutputs == 2
MaxLows == 4
\* Day 15: focal lengths are the digits 0..MaxFocal.
MaxFocal == 2
\* SparseGrid: coordinates are within MaxSpan of the origin on either axis,
\* and at most MaxInserts of them are inserted.
MaxSpan == 1
MaxInserts == 2
\* part_two makes this many boxes.
NumBoxes == 256

\* ------------------------------------------------------------------ values

\* The cell type T (T: Copy).  Two values tell a written cell from the others.
Cell == {0, 1}

\* Option<T>: None is the empty sequence, Some(v) the one-element sequence.
None == <<>>
Some(v) == <<v>>
OptionCell == {None} \cup {Some(v) : v \in Cell}

\* The characters of a text block: two digits, a two-byte character (written
\* "U"), a blank and the line break.
Chars == {"0", "1", "U", " ", "\n"}

\* str::len counts bytes, not characters.
Utf8Len(c) == IF c = "U" THEN 2 ELSE 1

\* XY(x, y), a pair of i64.
XY(x, y) == <<x, y>>
Coords == {XY(x, y) : x \in -1..MaxCoord, y \in -1..MaxCoord}

\* struct DenseGrid<T> { width, filler, items }
DenseGrid(width, filler, items) ==
    [width |-> width, filler |-> filler, items |-> items]

\* The placeholder held while no grid has been built.
NoGrid == DenseGrid(0, None, <<>>)

\* Result<DenseGrid<T>, &'static str>, and a third outcome for a panic.
Ok(g) == [tag |-> "Ok", grid |-> g, err |-> ""]
Err(e) == [tag |-> "Err", grid |-> NoGrid, err |-> e]
Panicked == [tag |-> "Panic", grid |-> NoGrid, err |-> ""]

\* Option<&T> as returned by get / get_mut: a reference into items (0-based
\* index), a reference to the filler, None; or the call panicked.
RefItem(i) == [kind |-> "item", idx |-> i]
RefFiller == [kind |-> "filler", idx |-> 0]
RefNone == [kind |-> "none", idx |-> 0]
RefPanic == [kind |-> "panic", idx |-> 0]

\* The cell a reference points to, as an Option<T>.
Deref(g, r) ==
    IF r.kind = "item" THEN Some(g.items[r.idx + 1])
    ELSE IF r.kind = "filler" THEN g.filler
    ELSE None

\* `*r = value` through an Option<&mut T> that is Some.
WriteRef(g, r, value) ==
    IF r.kind = "item" THEN [g EXCEPT !.items[r.idx + 1] = value]
    ELSE IF r.kind = "filler" THEN [g EXCEPT !.filler = Some(value)]
    ELSE g

\* ------------------------------------------------- DenseGrid: point access

\* height() divides items.len() by width: a usize division, which panics
\* ("attempt to divide by zero") when width is 0.
HeightPanics(g) == g.width = 0

\* height(), where it does not panic.
height(g) == Len(g.items) \div g.width

\* A call of height(): the quotient, or a panic.
height_call(g) ==
    IF HeightPanics(g) THEN [panic |-> TRUE, value |-> 0]
    ELSE [panic |-> FALSE, value |-> height(g)]

\* self.filler.as_ref()
FillerRef(g) == IF g.filler = None THEN RefNone ELSE RefFiller

\* get with the two coordinates swapped in the index (x * width + y).
get_transposed(g, xy) ==
    LET x == xy[1]
        y == xy[2]
    IN  IF x < 0 \/ y < 0 \/ x >= g.width THEN FillerRef(g)
        ELSE IF HeightPanics(g) THEN RefPanic
        ELSE IF y >= height(g) THEN FillerRef(g)
        ELSE LET index == x * g.width + y
             IN  IF index < Len(g.items) THEN RefItem(index) ELSE FillerRef(g)

\* get with the bound tests off by one (x > width, y > height).
get_off_by_one(g, xy) ==
    LET x == xy[1]
        y == xy[2]
    IN  IF x < 0 \/ y < 0 \/ x > g.width THEN FillerRef(g)
        ELSE IF HeightPanics(g) THEN RefPanic
        ELSE IF y > height(g) THEN FillerRef(g)
        ELSE LET index == y * g.width + x
             IN  IF index < Len(g.items) THEN RefItem(index) ELSE FillerRef(g)

\* get: the || chain evaluates left to right and stops at the first true
\* operand, so height() runs only when 0 <= x < width.
get(g, xy) ==
    LET x == xy[1]
        y == xy[2]
    IN  IF x < 0 \/ y < 0 \/ x >= g.width THEN FillerRef(g)
        ELSE IF HeightPanics(g) THEN RefPanic
        ELSE IF y >= height(g) THEN FillerRef(g)
        ELSE LET index == y * g.width + x
             IN  IF index < Len(g.items) THEN RefItem(index) ELSE FillerRef(g)

\* set_if_inbounds with height() computed before the bound tests.
set_if_inbounds_eager(g, xy, value) ==
    LET x == xy[1]
        y == xy[2]
    IN  IF HeightPanics(g) THEN [panic |-> TRUE, grid |-> g]
        ELSE IF ~(x >= 0 /\ y >= 0 /\ x < g.width /\ y < height(g))
        THEN [panic |-> FALSE, grid |-> g]
        ELSE LET index == y * g.width + x
             IN  IF index < Len(g.items)
                 THEN [panic |-> FALSE,
                       grid |-> [g EXCEPT !.items[index + 1] = value]]
                 ELSE [panic |-> TRUE, grid |-> g]

\* set_if_inbounds with the width test off by one (x <= width).
set_if_inbounds_off_by_one(g, xy, value) ==
    LET x == xy[1]
        y == xy[2]
    IN  IF ~(x >= 0 /\ y >= 0 /\ x <= g.width) THEN [panic |-> FALSE, grid |-> g]
        ELSE IF HeightPanics(g) THEN [panic |-> TRUE, grid |-> g]
        ELSE IF ~(y < height(g)) THEN [panic |-> FALSE, grid |-> g]
        ELSE LET index == y * g.width + x
             IN  IF index < Len(g.items)
                 THEN [panic |-> FALSE,
                       grid |-> [g EXCEPT !.items[index + 1] = value]]
                 ELSE [panic |-> TRUE, grid |-> g]

\* set_if_inbounds with the two coordinates swapped in the index.
set_if_inbounds_transposed(g, xy, value) ==
    LET x == xy[1]
        y == xy[2]
    IN  IF ~(x >= 0 /\ y >= 0 /\ x < g.width) THEN [panic |-> FALSE, grid |-> g]
        ELSE IF HeightPanics(g) THEN [panic |-> TRUE, grid |-> g]
        ELSE IF ~(y < height(g)) THEN [panic |-> FALSE, grid |-> g]
        ELSE LET index == x * g.width + y
             IN  IF index < Len(g.items)
                 THEN [panic |-> FALSE,
                       grid |-> [g EXCEPT !.items[index + 1] = value]]
                 ELSE [panic |-> TRUE, grid |-> g]

\* set_if_inbounds: the && chain stops at the first false operand;
\* items[index] = value panics when index is past the end.
\* Returns the grid after the call, or that the call panicked.
set_if_inbounds(g, xy, value) ==
    LET x == xy[1]
        y == xy[2]
    IN  IF ~(x >= 0 /\ y >= 0 /\ x < g.width) THEN [panic |-> FALSE, grid |-> g]
        ELSE IF HeightPanics(g) THEN [panic |-> TRUE, grid |-> g]
        ELSE IF ~(y < height(g)) THEN [panic |-> FALSE, grid |-> g]
        ELSE LET index == y * g.width + x
             IN  IF index < Len(g.items)
                 THEN [panic |-> FALSE,
                       grid |-> [g EXCEPT !.items[index + 1] = value]]
                 ELSE [panic |-> TRUE, grid |-> g]

\* get_mut with the two coordinates swapped in the index (x * width + y).
get_mut_transposed(g, xy) ==
    LET x == xy[1]
        y == xy[2]
    IN  IF x < 0 \/ y < 0 \/ x >= g.width THEN RefNone
        ELSE IF HeightPanics(g) THEN RefPanic
        ELSE IF y >= height(g) THEN RefNone
        ELSE LET index == x * g.width + y
             IN  IF index < Len(g.items) THEN RefItem(index) ELSE RefNone

\* get_mut handing out the filler on an out-of-bounds coordinate, as get does.
get_mut_filler(g, xy) ==
    LET x == xy[1]
        y == xy[2]
    IN  IF x < 0 \/ y < 0 \/ x >= g.width THEN FillerRef(g)
        ELSE IF HeightPanics(g) THEN RefPanic
        ELSE IF y >= height(g) THEN FillerRef(g)
        ELSE LET index == y * g.width + x
             IN  IF index < Len(g.items) THEN RefItem(index) ELSE FillerRef(g)

\* get_mut: as get, with None in place of the filler.
get_mut(g, xy) ==
    LET x == xy[1]
        y == xy[2]
    IN  IF x < 0 \/ y < 0 \/ x >= g.width THEN RefNone
        ELSE IF HeightPanics(g) THEN RefPanic
        ELSE IF y >= height(g) THEN RefNone
        ELSE LET index == y * g.width + x
             IN  IF index < Len(g.items) THEN RefItem(index) ELSE RefNone

\* ------------------------------------------------- DenseGrid: search

\* What find returns: Some((&item, xy)), None, or a panic.
FoundAt(i, xy) == [kind |-> "some", idx |-> i, xy |-> xy]
FoundNone == [kind |-> "none", idx |-> 0, xy |-> XY(0, 0)]
FoundPanic == [kind |-> "panic", idx |-> 0, xy |-> XY(0, 0)]

\* index_to_xy: idx % width and idx / width on usize, which panic when width
\* is 0.
IndexToXyPanics(g) == g.width = 0
index_to_xy(g, idx) == XY(idx % g.width, idx \div g.width)

\* find: the first item (in buffer order) that satisfies the predicate, with
\* its coordinate.  A predicate is the set of the cells it accepts.
find(g, predicate) ==
    LET hits == {i \in 1..Len(g.items) : g.items[i] \in predicate}
    IN  IF hits = {} THEN FoundNone
        ELSE LET i == CHOOSE i \in hits : \A j \in hits : i <= j
             IN  IF IndexToXyPanics(g) THEN FoundPanic
                 ELSE FoundAt(i - 1, index_to_xy(g, i - 1))

\* find_one: Some(self.find(|el| el == target)?.1)
find_one(g, target) ==
    LET found == find(g, {target})
    IN  IF found.kind = "some" THEN [kind |-> "some", xy |-> found.xy]
        ELSE [kind |-> found.kind, xy |-> XY(0, 0)]

\* ------------------------------------------------- DenseGrid: neighbours

\* impl ops::Add<&XY> for XY
xy_add(a, b) == XY(a[1] + b[1], a[2] + b[2])

UP == XY(0, -1)
DOWN == XY(0, 1)
LEFT == XY(-1, 0)
RIGHT == XY(1, 0)

\* [UP, DOWN, LEFT, RIGHT]
CardinalDirections == <<UP, DOWN, LEFT, RIGHT>>

\* One item of a neighbour iterator: (XY, Option<&T>).
Pair(p, ref) == [xy |-> p, ret |-> ref]

\* cardinal_neighbours dropping the neighbours get has nothing for.
cardinal_neighbours_skipping(g, pos) ==
    LET all == [k \in 1..4 |->
                  Pair(xy_add(pos, CardinalDirections[k]),
                       get(g, xy_add(pos, CardinalDirections[k])))]
    IN  SelectSeq(all, LAMBDA pr : pr.ret.kind # "none")

\* cardinal_neighbours: the four (p, get(p)) with p = pos + d.
cardinal_neighbours(g, pos) ==
    [k \in 1..4 |->
        Pair(xy_add(pos, CardinalDirections[k]),
             get(g, xy_add(pos, CardinalDirections[k])))]

\* wrap_number(n, m): n mod m, normalised to 0..m-1 ("coordinate mod
\* dimension, normalized to non-negative"); a remainder by 0 panics.
WrapNumberPanics(m) == m = 0
wrap_number(n, m) == n % m

\* wrap with the two dimensions exchanged.
wrap_swapped(g, p) == XY(wrap_number(p[1], height(g)), wrap_number(p[2], g.width))

\* wrap: x modulo width, y modulo height(), where neither panics.
wrap(g, p) == XY(wrap_number(p[1], g.width), wrap_number(p[2], height(g)))

\* wrap panics when width is 0 (in wrap_number, or in height()) and when
\* height() is 0.
WrapPanics(g) ==
    \/ WrapNumberPanics(g.width)
    \/ HeightPanics(g)
    \/ WrapNumberPanics(height(g))

\* cardinal_neighbours_with_wrapping: the four (p, get(p)) with
\* p = wrap(pos + d); the pairs, or a panic when the iterator is consumed.
cardinal_neighbours_with_wrapping(g, pos) ==
    IF WrapPanics(g) THEN [panic |-> TRUE, pairs |-> <<>>]
    ELSE [panic |-> FALSE,
          pairs |-> [k \in 1..4 |->
                       Pair(wrap(g, xy_add(pos, CardinalDirections[k])),
                            get(g, wrap(g, xy_add(pos, CardinalDirections[k]))))]]

\* ------------------------------------------------- DenseGrid: ranges

min(a, b) == IF a <= b THEN a ELSE b
max(a, b) == IF a >= b THEN a ELSE b

\* lo..=hi as the sequence of values the iterator yields (none if lo > hi).
RangeInclusive(lo, hi) == [i \in 1..(hi - lo + 1) |-> lo + i - 1]

\* range with the x range outside and the y range inside.
range_column_major(g, x_range, y_range) ==
    [k \in 1..(Len(x_range) * Len(y_range)) |->
        LET x == x_range[((k - 1) \div Len(y_range)) + 1]
            y == y_range[((k - 1) % Len(y_range)) + 1]
        IN  Pair(XY(x, y), get(g, XY(x, y)))]

\* range: for each y of y_range, for each x of a clone of x_range,
\* (XY(x, y), get(XY(x, y))), flattened.
range(g, x_range, y_range) ==
    [k \in 1..(Len(x_range) * Len(y_range)) |->
        LET y == y_range[((k - 1) \div Len(x_range)) + 1]
            x == x_range[((k - 1) % Len(x_range)) + 1]
        IN  Pair(XY(x, y), get(g, XY(x, y)))]

\* rect_range_inclusive taking a as the low corner and b as the high one.
rect_range_inclusive_as_given(g, a, b) ==
    range(g, RangeInclusive(a[1], b[1]), RangeInclusive(a[2], b[2]))

\* DenseGrid::rect_range_inclusive
rect_range_inclusive(g, a, b) ==
    LET min_x == min(a[1], b[1])
        max_x == max(a[1], b[1])
        min_y == min(a[2], b[2])
        max_y == max(a[2], b[2])
    IN  range(g, RangeInclusive(min_x, max_x), RangeInclusive(min_y, max_y))

\* XY::rect_range_inclusive: the cartesian product of the x range with the
\* y range (x outside, y inside), collected into a Vec<XY>.
XY_rect_range_inclusive(self, other) ==
    LET min_x == min(self[1], other[1])
        max_x == max(self[1], other[1])
        min_y == min(self[2], other[2])
        max_y == max(self[2], other[2])
        xs == RangeInclusive(min_x, max_x)
        ys == RangeInclusive(min_y, max_y)
    IN  [k \in 1..(Len(xs) * Len(ys)) |->
            XY(xs[((k - 1) \div Len(ys)) + 1], ys[((k - 1) % Len(ys)) + 1])]

\* ------------------------------------------------- DenseGrid: constructors

\* The index of the first line break of s, or 0.
FirstBreak(s) ==
    IF \E i \in 1..Len(s) : s[i] = "\n"
    THEN CHOOSE i \in 1..Len(s) : s[i] = "\n" /\ \A j \in 1..(i - 1) : s[j] # "\n"
    ELSE 0

\* block.split("\n"): the pieces between line breaks (one piece for "").
RECURSIVE SplitLines(_)
SplitLines(s) ==
    LET i == FirstBreak(s)
    IN  IF i = 0 THEN <<s>>
        ELSE <<SubSeq(s, 1, i - 1)>> \o SplitLines(SubSeq(s, i + 1, Len(s)))

\* char::is_whitespace on the characters of Chars a line can hold.
IsSpace(c) == c = " "

RECURSIVE TrimStart(_)
TrimStart(s) ==
    IF s # <<>> /\ IsSpace(Head(s)) THEN TrimStart(Tail(s)) ELSE s

RECURSIVE TrimEnd(_)
TrimEnd(s) ==
    IF s # <<>> /\ IsSpace(s[Len(s)]) THEN TrimEnd(SubSeq(s, 1, Len(s) - 1)) ELSE s

\* str::trim
Trim(s) == TrimEnd(TrimStart(s))

\* str::len: the length in bytes.
RECURSIVE StrLen(_)
StrLen(s) == IF s = <<>> THEN 0 ELSE Utf8Len(Head(s)) + StrLen(Tail(s))

\* The concatenation of a sequence of sequences (flat_map / flatten).
RECURSIVE Flatten(_)
Flatten(ss) == IF ss = <<>> THEN <<>> ELSE Head(ss) \o Flatten(Tail(ss))

\* The cell_parser handed to parse: the digit of the character, 0 for any
\* other character.
cell_parser(c) == IF c = "1" THEN 1 ELSE 0

\* parse taking the width from the first line before trimming it.
parse_untrimmed(block, filler) ==
    LET lines == SplitLines(block)
        width == StrLen(lines[1])
        chars == Flatten([i \in 1..Len(lines) |-> Trim(lines[i])])
        items == [i \in 1..Len(chars) |-> cell_parser(chars[i])]
    IN  DenseGrid(width, filler, items)

\* parse: width is the byte length of the trimmed first line; items are the
\* parsed characters of all trimmed lines.
parse(block, filler) ==
    LET lines == SplitLines(block)
        width == StrLen(Trim(lines[1]))
        chars == Flatten([i \in 1..Len(lines) |-> Trim(lines[i])])
        items == [i \in 1..Len(chars) |-> cell_parser(chars[i])]
    IN  DenseGrid(width, filler, items)

\* new_filled with width and height taken in the other order.
new_filled_swapped(width, h, base, filler) ==
    DenseGrid(h, filler, [i \in 1..(width * h) |-> base])

\* new_filled: vec![base; width * height]
new_filled(width, h, base, filler) ==
    DenseGrid(width, filler, [i \in 1..(width * h) |-> base])

\* Itertools::dedup: consecutive equal elements collapse to one.
RECURSIVE dedup(_)
dedup(s) ==
    IF Len(s) <= 1 THEN s
    ELSE IF s[1] = s[2] THEN dedup(Tail(s))
    ELSE <<s[1]>> \o dedup(Tail(s))

\* columns.iter().map(Vec::len)
Lens(batch) == [i \in 1..Len(batch) |-> Len(batch[i])]

\* from_columns laying the columns out one after the other, as from_rows does.
from_columns_row_major(columns, filler) ==
    LET n == Len(dedup(Lens(columns)))
    IN  IF n = 0 THEN Err("no columns")
        ELSE IF n # 1 THEN Err("columns are not uniform")
        ELSE Ok(DenseGrid(Len(columns), filler, Flatten(columns)))

\* from_columns: columns[x][y] panics when a column is shorter than height.
from_columns(columns, filler) ==
    LET n == Len(dedup(Lens(columns)))
    IN  IF n = 0 THEN Err("no columns")
        ELSE IF n # 1 THEN Err("columns are not uniform")
        ELSE LET h == Len(columns[1])
                 width == Len(columns)
             IN  IF \E x \in 1..width : Len(columns[x]) < h THEN Panicked
                 ELSE Ok(DenseGrid(width, filler,
                         [k \in 1..(h * width) |->
                             columns[((k - 1) % width) + 1][((k - 1) \div width) + 1]]))

\* from_rows without the arm for more than one distinct length.
from_rows_unchecked(columns, filler) ==
    LET n == Len(dedup(Lens(columns)))
    IN  IF n = 0 THEN Err("no rows")
        ELSE Ok(DenseGrid(Len(columns[1]), filler, Flatten(columns)))

\* from_rows taking the number of rows for the width, as from_columns does.
from_rows_width_as_count(columns, filler) ==
    LET n == Len(dedup(Lens(columns)))
    IN  IF n = 0 THEN Err("no rows")
        ELSE IF n # 1 THEN Err("rows are not uniform")
        ELSE Ok(DenseGrid(Len(columns), filler, Flatten(columns)))

\* from_rows (its parameter is named columns in the source, too).
from_rows(columns, filler) ==
    LET n == Len(dedup(Lens(columns)))
    IN  IF n = 0 THEN Err("no rows")
        ELSE IF n # 1 THEN Err("rows are not uniform")
        ELSE Ok(DenseGrid(Len(columns[1]), filler, Flatten(columns)))

\* ------------------------------------------------- DenseGrid: iteration

\* rows_iter whose row y starts at index y instead of y * width.
rows_iter_unstrided(g) ==
    IF HeightPanics(g) THEN [panic |-> TRUE, seqs |-> <<>>]
    ELSE [panic |-> FALSE,
          seqs |-> [r \in 1..height(g) |->
                      SubSeq(g.items, r, r + g.width - 1)]]

\* rows_iter: (0..self.height()) is built when rows_iter is called, so a width
\* of 0 panics here; each row is the slice items[y*width .. (y+1)*width].
rows_iter(g) ==
    IF HeightPanics(g) THEN [panic |-> TRUE, seqs |-> <<>>]
    ELSE [panic |-> FALSE,
          seqs |-> [r \in 1..height(g) |->
                      SubSeq(g.items, (r - 1) * g.width + 1, r * g.width)]]

\* columns_iter: height() and get(..).unwrap() run inside the closure, once
\* per x in 0..width; unwrap panics on None.
columns_iter(g) ==
    IF g.width = 0 THEN [panic |-> FALSE, seqs |-> <<>>]
    ELSE LET cell(c, r) == get(g, XY(c - 1, r - 1))
         IN  IF \E c \in 1..g.width, r \in 1..height(g) :
                    Deref(g, cell(c, r)) = None
             THEN [panic |-> TRUE, seqs |-> <<>>]
             ELSE [panic |-> FALSE,
                   seqs |-> [c \in 1..g.width |->
                               [r \in 1..height(g) |-> Deref(g, cell(c, r))[1]]]]

\* from_rows over the rows rows_iter yields (each slice copied to a Vec),
\* with the grid's own filler.
rows_round_trip(g) ==
    LET it == rows_iter(g)
    IN  IF it.panic THEN Panicked ELSE from_rows(it.seqs, g.filler)

\* from_columns over the columns columns_iter yields (each &T copied),
\* with the grid's own filler.
columns_round_trip(g) ==
    LET it == columns_iter(g)
    IN  IF it.panic THEN Panicked ELSE from_columns(it.seqs, g.filler)

\* ------------------------------------------------- XY: rotations

IntMin == 0 - 2 ^ (IntBits - 1)
IntMax == 2 ^ (IntBits - 1) - 1
I64 == IntMin..IntMax

\* Arithmetic overflow panics in a build with overflow checks (debug) and
\* wraps in one without (release).
Builds == {"debug", "release"}

\* The two's-complement value of n.
wrapping(n) == ((n - IntMin) % (2 ^ IntBits)) + IntMin

\* The outcome of an i64 operation whose exact result is n.
Checked(build, n) ==
    [panic |-> build = "debug" /\ n \notin I64, value |-> wrapping(n)]

\* -n
Neg(build, n) == Checked(build, 0 - n)

\* n.abs()
I64Abs(build, n) == Checked(build, IF n < 0 THEN 0 - n ELSE n)

\* What a function returning an XY gives back, or the panic it ends in.
XYResult(p, v) == [panic |-> p, xy |-> v]

\* XY(-self.1, self.0)
turn_left(build, self) ==
    LET n == Neg(build, self[2])
    IN  XYResult(n.panic, XY(n.value, self[1]))

\* XY(self.1, -self.0)
turn_right(build, self) ==
    LET n == Neg(build, self[1])
    IN  XYResult(n.panic, XY(self[2], n.value))

\* self.0.abs() + self.1.abs()
manhattan_dist(build, self) ==
    LET a0 == I64Abs(build, self[1])
        a1 == I64Abs(build, self[2])
        s == Checked(build, a0.value + a1.value)
    IN  [panic |-> a0.panic \/ a1.panic \/ s.panic, value |-> s.value]

\* ------------------------------------------------- HashMap, SparseGrid

\* A HashMap is the function from its keys to their values.
EmptyMap == [k \in {} |-> 0]

\* HashMap::insert: the value of key is replaced, or key is added.
MapInsert(map, key, value) ==
    [k \in DOMAIN map \cup {key} |-> IF k = key THEN value ELSE map[k]]

\* update_min taking the minimum of x only.
update_min_of_x(self, other) == XY(min(self[1], other[1]), self[2])

update_min(self, other) == XY(min(self[1], other[1]), min(self[2], other[2]))
update_max(self, other) == XY(max(self[1], other[1]), max(self[2], other[2]))

SparseGrid(items, filler, lower_corner, upper_corner) ==
    [items |-> items, filler |-> filler,
     lower_corner |-> lower_corner, upper_corner |-> upper_corner]

SparseGrid_new(filler) == SparseGrid(EmptyMap, filler, XY(0, 0), XY(0, 0))

\* SparseGrid::insert: the grid it leaves (the value it returns is the one
\* the key had before, which no caller uses).
SparseGrid_insert(self, at, value) ==
    SparseGrid(MapInsert(self.items, at, value), self.filler,
               update_min(self.lower_corner, at),
               update_max(self.upper_corner, at))

\* SparseGrid::get: self.items.get(at).or(self.filler.as_ref())
SparseGrid_get(self, at) ==
    IF at \in DOMAIN self.items THEN Some(self.items[at]) ELSE self.filler

\* ------------------------------------------------- day 18: the lagoon

Move(direction, amount) == [direction |-> direction, amount |-> amount]

\* geometry::Direction
UpDown == [kind |-> "UpDown", num |-> 0]
LeftRight == [kind |-> "LeftRight", num |-> 0]
Corner(num) == [kind |-> "Corner", num |-> num]

main_direction(m) ==
    IF m.direction \in {UP, DOWN} THEN UpDown ELSE LeftRight

cross_z(self, other) == (0 - other[1]) * self[2] + self[1] * other[2]

\* self * n for an XY and an i64
xy_mul(self, n) == XY(self[1] * n, self[2] * n)

\* One iteration of compute_boundary's loop over the moves: the tile the
\* move starts on gets the direction of the turn made there (or the move's
\* own axis when there is no turn) and is inserted in map; each of the
\* amount tiles after it gets the move's axis.
BoundaryStep(st, m) ==
    LET main == main_direction(m)
        cross == IF st.prev_move = None THEN 0
                 ELSE cross_z(st.prev_move[1].direction, m.direction)
        first_tile_dir == IF cross = 0 THEN main ELSE Corner(cross)
        dug == {xy_add(st.p, xy_mul(m.direction, k)) : k \in 1..m.amount}
        b1 == MapInsert(st.boundary, st.p, first_tile_dir)
    IN  [p |-> xy_add(st.p, xy_mul(m.direction, m.amount)),
         prev_move |-> Some(m),
         boundary |-> [t \in DOMAIN b1 \cup dug |->
                          IF t \in dug THEN main ELSE b1[t]],
         map |-> SparseGrid_insert(st.map, st.p, m)]

RECURSIVE BoundaryLoop(_, _, _)
BoundaryLoop(list, i, st) ==
    IF i > Len(list) THEN st
    ELSE BoundaryLoop(list, i + 1, BoundaryStep(st, list[i]))

\* compute_boundary: prev_move starts as the last move of the list.
compute_boundary(list) ==
    LET st == BoundaryLoop(list, 1,
                 [p |-> XY(0, 0),
                  prev_move |-> IF list = <<>> THEN None ELSE Some(list[Len(list)]),
                  boundary |-> EmptyMap,
                  map |-> SparseGrid_new(None)])
    IN  [boundary |-> st.boundary, map |-> st.map]

\* get_odd's inner loop over the x of one row y: the tiles of the row that
\* are not on the boundary and have an odd number of crossings to their
\* left, added to inner.
RECURSIVE ScanRow(_, _, _, _, _, _)
ScanRow(boundary, xs, y, boundary_crossings, last_corner, inner) ==
    IF xs = <<>> THEN inner
    ELSE LET p == XY(Head(xs), y)
         IN  IF p \in DOMAIN boundary
             THEN LET d == boundary[p]
                  IN  IF d.kind = "UpDown"
                      THEN ScanRow(boundary, Tail(xs), y,
                                   boundary_crossings + 1, None, inner)
                      ELSE IF d.kind = "LeftRight"
                      THEN ScanRow(boundary, Tail(xs), y,
                                   boundary_crossings, last_corner, inner)
                      ELSE ScanRow(boundary, Tail(xs), y,
                                   IF last_corner # None /\ d.num # last_corner[1]
                                   THEN boundary_crossings + 1
                                   ELSE boundary_crossings,
                                   Some(d.num), inner)
             ELSE ScanRow(boundary, Tail(xs), y, boundary_crossings, None,
                          IF boundary_crossings % 2 = 1
                          THEN inner \cup {p} ELSE inner)

\* get_odd: every row starts with no crossing and no corner.
get_odd(boundary, x_range, y_range) ==
    UNION {ScanRow(boundary, x_range, y_range[j], 0, None, {}) :
             j \in 1..Len(y_range)}

range_x_inclusive(self, other) ==
    RangeInclusive(min(self[1], other[1]), max(self[1], other[1]))

range_y_inclusive(self, other) ==
    RangeInclusive(min(self[2], other[2]), max(self[2], other[2]))

\* part_one, from the parsed moves on.
part_one(list) ==
    LET cb == compute_boundary(list)
        inner == get_odd(cb.boundary,
                         range_x_inclusive(cb.map.lower_corner, cb.map.upper_corner),
                         range_y_inclusive(cb.map.lower_corner, cb.map.upper_corner))
    IN  Cardinality(inner) + Cardinality(DOMAIN cb.boundary)

\* ------------------------------------------------- day 16: beams

Splitter(enter_directions, split_directions) ==
    [enter_directions |-> enter_directions, split_directions |-> split_directions]

UP_DOWN_SPLITTER == Splitter(<<LEFT, RIGHT>>, <<UP, DOWN>>)
LEFT_RIGHT_SPLITTER == Splitter(<<UP, DOWN>>, <<LEFT, RIGHT>>)

\* enum MirrorTile
SplitterTile(s) == [kind |-> "Splitter", splitter |-> Some(s)]
MirrorLeft == [kind |-> "MirrorLeft", splitter |-> None]
MirrorRight == [kind |-> "MirrorRight", splitter |-> None]
Ground == [kind |-> "Ground", splitter |-> None]

\* What parse_mirror returns for the characters . | - / \
MirrorTiles ==
    {Ground, SplitterTile(UP_DOWN_SPLITTER), SplitterTile(LEFT_RIGHT_SPLITTER),
     MirrorLeft, MirrorRight}

Beam(start, direction) == [start |-> start, direction |-> direction]

TileEnergy(has_up, has_down, has_left, has_right) ==
    [has_up |-> has_up, has_down |-> has_down,
     has_left |-> has_left, has_right |-> has_right]

TileEnergy_empty == TileEnergy(FALSE, FALSE, FALSE, FALSE)

is_powered(t) == t.has_left \/ t.has_right \/ t.has_up \/ t.has_down

\* UP => RIGHT, DOWN => LEFT, LEFT => DOWN, RIGHT => UP
hit_mirror_left(beam, p) ==
    Beam(p, CASE beam.direction = UP -> RIGHT
              [] beam.direction = DOWN -> LEFT
              [] beam.direction = LEFT -> DOWN
              [] beam.direction = RIGHT -> UP)

\* UP => LEFT, DOWN => RIGHT, LEFT => UP, RIGHT => DOWN
hit_mirror_right(beam, p) ==
    Beam(p, CASE beam.direction = UP -> LEFT
              [] beam.direction = DOWN -> RIGHT
              [] beam.direction = LEFT -> UP
              [] beam.direction = RIGHT -> DOWN)

\* Some(the two beams leaving p) when the beam enters the splitter by one
\* of its enter_directions, None when it passes through.
hit_splitter(beam, splitter, p) ==
    IF \E i \in 1..2 : splitter.enter_directions[i] = beam.direction
    THEN Some([i \in 1..2 |-> Beam(p, splitter.split_directions[i])])
    ELSE None

\* handle_beam_entering_tile that marks the tile but never reports that a
\* beam came this way before.
handle_beam_entering_tile_forgetful(beam, energy_tile) ==
    [stop |-> FALSE,
     tile |-> CASE beam.direction = UP -> [energy_tile EXCEPT !.has_up = TRUE]
                [] beam.direction = DOWN -> [energy_tile EXCEPT !.has_down = TRUE]
                [] beam.direction = LEFT -> [energy_tile EXCEPT !.has_left = TRUE]
                [] beam.direction = RIGHT -> [energy_tile EXCEPT !.has_right = TRUE]]

\* handle_beam_entering_tile: whether a beam already entered the tile in
\* this direction (the beam stops), and the tile with the direction's flag
\* set.
handle_beam_entering_tile(beam, energy_tile) ==
    CASE beam.direction = UP ->
           [stop |-> energy_tile.has_up, tile |-> [energy_tile EXCEPT !.has_up = TRUE]]
      [] beam.direction = DOWN ->
           [stop |-> energy_tile.has_down, tile |-> [energy_tile EXCEPT !.has_down = TRUE]]
      [] beam.direction = LEFT ->
           [stop |-> energy_tile.has_left, tile |-> [energy_tile EXCEPT !.has_left = TRUE]]
      [] beam.direction = RIGHT ->
           [stop |-> energy_tile.has_right, tile |-> [energy_tile EXCEPT !.has_right = TRUE]]

\* What one iteration of propagate_beam's loop does: it goes on with the
\* next step, or propagate_beam returns beams; energy is the grid it leaves.
Going(energy) == [returned |-> FALSE, why |-> "on", beams |-> <<>>, energy |-> energy]
Returned(why, beams, energy) ==
    [returned |-> TRUE, why |-> why, beams |-> beams, energy |-> energy]

\* The iteration of propagate_beam's loop for the given number of steps.
PropagateStep(beam, steps, brd, energy) ==
    LET p == xy_add(beam.start, xy_mul(beam.direction, steps))
        energy_tile == get_mut(energy, p)
    IN  IF energy_tile.kind # "item"
        THEN Returned("out of the board", <<>>, energy)
        ELSE
        LET h == handle_beam_entering_tile(beam, Deref(energy, energy_tile)[1])
            marked == WriteRef(energy, energy_tile, h.tile)
            tile == Deref(brd, get(brd, p))
        IN  IF h.stop THEN Returned("already passed", <<>>, energy)
            ELSE IF tile = None THEN Returned("no tile", <<>>, marked)
            ELSE IF tile[1].kind = "Splitter"
            THEN LET beams == hit_splitter(beam, tile[1].splitter[1], p)
                 IN  IF beams # None THEN Returned("split", beams[1], marked)
                     ELSE Going(marked)
            ELSE IF tile[1].kind = "MirrorLeft"
            THEN Returned("mirror", <<hit_mirror_left(beam, p)>>, marked)
            ELSE IF tile[1].kind = "MirrorRight"
            THEN Returned("mirror", <<hit_mirror_right(beam, p)>>, marked)
            ELSE Going(marked)

\* propagate_beam, from the given step on.
RECURSIVE propagate_from(_, _, _, _)
propagate_from(beam, steps, brd, energy) ==
    LET r == PropagateStep(beam, steps, brd, energy)
    IN  IF r.returned THEN r ELSE propagate_from(beam, steps + 1, brd, r.energy)

propagate_beam(beam, brd, energy) == propagate_from(beam, 1, brd, energy)

\* energy_grid.items.iter().filter(|t| t.is_powered()).count()
PoweredCount(energy) ==
    Cardinality({i \in 1..Len(energy.items) : is_powered(energy.items[i])})

\* calc_total_power's while loop, the beams in the queue being active.
RECURSIVE PowerLoop(_, _, _)
PowerLoop(brd, energy, active) ==
    IF active = <<>> THEN PoweredCount(energy)
    ELSE LET r == propagate_beam(Head(active), brd, energy)
         IN  PowerLoop(brd, r.energy, Tail(active) \o r.beams)

\* calc_total_power, run from start to end on a board of width >= 1.
calc_total_power(brd, initial_beam) ==
    PowerLoop(brd, new_filled(brd.width, height(brd), TileEnergy_empty, None),
              <<initial_beam>>)

\* part_two's four chained edges: top, bottom, left, right.
EdgeBeams(brd) ==
    [x \in 1..brd.width |-> Beam(XY(x - 1, -1), DOWN)]
    \o [x \in 1..brd.width |-> Beam(XY(x - 1, height(brd)), UP)]
    \o [y \in 1..height(brd) |-> Beam(XY(-1, y - 1), RIGHT)]
    \o [y \in 1..height(brd) |-> Beam(XY(brd.width, y - 1), LEFT)]

\* The energy grid a run of calc_total_power works on, were all runs to
\* share one.
EnergyGridShared(run) == 0

\* The energy grid a run of calc_total_power works on: the one its own
\* new_filled returned.
EnergyGridOf(run) == run

\* ------------------------------------------------- day 14: the platform

\* enum ReflectorTile
OBSTACLE == "OBSTACLE"
ROCK == "ROCK"
GROUND == "GROUND"
ReflectorTile == {OBSTACLE, ROCK, GROUND}

\* [tile].repeat(n)
Repeat(tile, n) == [i \in 1..n |-> tile]

\* What move_all_the_way returns, or the panic of a usize subtraction that
\* would go below 0.
Tiles(p, tiles) == [panic |-> p, tiles |-> tiles]

\* move_all_the_way's loop from index i on (i counts from 0).
RECURSIVE MoveLoop(_, _, _)
MoveLoop(v, i, result) ==
    IF i = Len(v) THEN Tiles(FALSE, result)
    ELSE IF v[i + 1] = ROCK THEN MoveLoop(v, i + 1, Append(result, ROCK))
    ELSE IF v[i + 1] = OBSTACLE
    THEN IF i < Len(result) THEN Tiles(TRUE, result)
         ELSE MoveLoop(v, i + 1,
                       result \o Repeat(GROUND, i - Len(result)) \o <<OBSTACLE>>)
    ELSE MoveLoop(v, i + 1, result)

\* move_all_the_way pushing an obstacle where the rocks end, without the
\* ground before it.
move_all_the_way_unpadded(v) ==
    LET kept == SelectSeq(v, LAMBDA t : t # GROUND)
    IN  Tiles(FALSE, kept \o Repeat(GROUND, Len(v) - Len(kept)))

move_all_the_way(v) ==
    LET r == MoveLoop(v, 0, <<>>)
    IN  IF r.panic \/ Len(v) < Len(r.tiles) THEN Tiles(TRUE, r.tiles)
        ELSE Tiles(FALSE, r.tiles \o Repeat(GROUND, Len(v) - Len(r.tiles)))

\* move_north: every column moved all the way, and the columns put back
\* together with from_columns(..).expect(..).
move_north(g) ==
    LET cols == columns_iter(g)
    IN  IF cols.panic THEN Panicked
        ELSE LET moved == [x \in 1..Len(cols.seqs) |-> move_all_the_way(cols.seqs[x])]
             IN  IF \E x \in 1..Len(moved) : moved[x].panic THEN Panicked
                 ELSE LET ret == from_columns([x \in 1..Len(moved) |-> moved[x].tiles],
                                              Some(OBSTACLE))
                      IN  IF ret.tag = "Ok" THEN ret ELSE Panicked

\* ------------------------------------------------- day 20: the flip-flop

\* enum SignalLevel
High == "High"
Low == "Low"

Transmission(signal, target, source) ==
    [signal |-> signal, target |-> target, source |-> source]

\* A FlipFlopModule: its base's name and outputs, and is_on.
FlipFlopModule(name, outputs, is_on) ==
    [name |-> name, outputs |-> outputs, is_on |-> is_on]

FlipFlopModule_new(name) == FlipFlopModule(name, <<>>, FALSE)

connect_output(self, name) ==
    FlipFlopModule(self.name, Append(self.outputs, name), self.is_on)

\* Module::broadcast: one transmission for each output, in order.
broadcast(self, signal) ==
    [i \in 1..Len(self.outputs) |-> Transmission(signal, self.outputs[i], self.name)]

\* What handle leaves of the module, and the transmissions it returns.
Handled(module, ret) == [module |-> module, ret |-> ret]

\* handle toggling on pulses of either level.
handle_any_level(self, transmission) ==
    LET module == FlipFlopModule(self.name, self.outputs, ~self.is_on)
    IN  Handled(module, broadcast(module, IF self.is_on THEN Low ELSE High))

\* FlipFlopModule's handle
handle(self, transmission) ==
    IF transmission.signal = High THEN Handled(self, <<>>)
    ELSE LET module == FlipFlopModule(self.name, self.outputs, ~self.is_on)
         IN  Handled(module, broadcast(module, IF self.is_on THEN Low ELSE High))

\* ------------------------------------------------- day 15: the lens boxes

\* A String is the sequence of its chars' codes.
RECURSIVE Fold(_, _)
Fold(acc, chars) ==
    IF chars = <<>> THEN acc
    ELSE Fold(((acc + Head(chars)) * 17) % 256, Tail(chars))

\* ascii_hash of a String
ascii_hash(self) == Fold(0, self)

\* enum Operation
Insert(focal_length) == [kind |-> "Insert", focal_length |-> focal_length]
Remove == [kind |-> "Remove", focal_length |-> 0]

InitStep(label, operation) == [label |-> label, operation |-> operation]

label_hash(step) == ascii_hash(step.label)

\* find_position: the index (from 0) of the first lens with this label.
find_position(box, label) ==
    LET found == {i \in 1..Len(box) : box[i][1] = label}
    IN  IF found = {} THEN None
        ELSE Some((CHOOSE i \in found : \A j \in found : i <= j) - 1)

\* The Insert arm pushing whether or not the label is there.
insert_lens_pushing(current_box, label, focal_length) ==
    Append(current_box, <<label, focal_length>>)

\* The Insert arm of part_two's match.
insert_lens(current_box, label, focal_length) ==
    LET previous == find_position(current_box, label)
    IN  IF previous # None
        THEN [current_box EXCEPT ![previous[1] + 1] = <<label, focal_length>>]
        ELSE Append(current_box, <<label, focal_length>>)

\* The Remove arm of part_two's match.
remove_lens(current_box, label) ==
    SelectSeq(current_box, LAMBDA lens : lens[1] # label)

\* Indexing a Vec of boxes past its end panics.
BoxesOrPanic(p, bxs) == [panic |-> p, boxes |-> bxs]

\* One iteration of part_two's loop over the steps.
apply_step(bxs, step) ==
    LET box_index == label_hash(step)
    IN  IF box_index >= Len(bxs) THEN BoxesOrPanic(TRUE, bxs)
        ELSE BoxesOrPanic(FALSE,
               [bxs EXCEPT ![box_index + 1] =
                   IF step.operation.kind = "Insert"
                   THEN insert_lens(@, step.label, step.operation.focal_length)
                   ELSE remove_lens(@, step.label)])

\* ------------------------------------------------------------------ state

VARIABLES
    pc,     \* "new" before construction; "returned" when a call has just
            \* returned and its result is still held; "ready" for the next
            \* call; "failed" when the constructor returned no grid
    grid,   \* the DenseGrid value (NoGrid when there is none)
    last    \* the last call: its name, its arguments and what it returned

\* The programs of src/bin that are modelled further down have their own
\* state, which the DenseGrid and XY actions leave alone.
VARIABLES
    moves,  \* day 18: the moves parsed from the input so far
    trail   \* day 18: the tiles those moves dig, in order, from the origin

digVars == <<moves, trail>>

DigIdle ==
    /\ moves = <<>>
    /\ trail = <<XY(0, 0)>>

\* The threads that run part_two's parallel map.
Workers == {"w1", "w2"}

VARIABLES
    board,         \* day 16: the board, shared by every run
    pool,          \* day 16: the workers that take beams
    edge_beams,    \* day 16: the initial beams no run has taken yet
    runs,          \* day 16: how many runs of calc_total_power have begun
    energy_grids,  \* day 16: the energy grids, by the run that made them
    mutators,      \* day 16: for each energy grid in use, the workers that
                   \* wrote it
    wpc,           \* day 16: where each worker is in calc_total_power
    energy_of,     \* day 16: the energy grid of each worker's run
    active_beams,  \* day 16: each worker's queue of beams
    cur,           \* day 16: the beam a worker propagates, and its steps
    max_energy     \* day 16: the greatest power returned so far

beamVars == <<board, pool, edge_beams, runs, energy_grids, mutators, wpc,
              energy_of, active_beams, cur, max_energy>>

NoBeam == [beam |-> Beam(XY(0, 0), XY(0, 0)), steps |-> 0]

\* Nothing of day 16 runs; what every run starts from.
BeamIdle ==
    /\ board = NoGrid
    /\ pool = {}
    /\ edge_beams = <<>>
    /\ runs = 0
    /\ energy_grids = EmptyMap
    /\ mutators = EmptyMap
    /\ wpc = [w \in Workers |-> "idle"]
    /\ energy_of = [w \in Workers |-> 0]
    /\ active_beams = [w \in Workers |-> <<>>]
    /\ cur = [w \in Workers |-> NoBeam]
    /\ max_energy = None

VARIABLES
    flipflop,  \* day 20: the flip-flop module of the module map
    pending,   \* day 20: step's queue of transmissions
    lows       \* day 20: how many Low pulses the flip-flop has handled

pulseVars == <<flipflop, pending, lows>>

NoModule == [name |-> "", outputs |-> <<>>, is_on |-> FALSE]

PulseIdle ==
    /\ flipflop = NoModule
    /\ pending = <<>>
    /\ lows = 0

VARIABLES
    boxes      \* day 15: part_two's boxes (<<>> before they are made)

lensVars == <<boxes>>

LensIdle == boxes = <<>>

VARIABLES
    sparse,    \* a SparseGrid
    inserted   \* the coordinates inserted in it so far

sparseVars == <<sparse, inserted>>

SparseIdle ==
    /\ sparse = SparseGrid_new(None)
    /\ inserted = {}

otherVars == <<pulseVars, lensVars, sparseVars>>

OthersIdle == PulseIdle /\ LensIdle /\ SparseIdle

elsewhere == <<digVars, beamVars, otherVars>>

ElsewhereIdle == DigIdle /\ BeamIdle /\ OthersIdle

vars == <<pc, grid, last, elsewhere>>

Init ==
    /\ pc = "new"
    /\ grid = NoGrid
    /\ last = [op |-> "none"]
    /\ ElsewhereIdle

\* ------------------------------------------------- constructor inputs

Blocks == UNION {[1..n -> Chars] : n \in 0..MaxBlock}

RECURSIVE Sum(_)
Sum(s) == IF s = <<>> THEN 0 ELSE Head(s) + Sum(Tail(s))

\* The row (or column) lengths of a batch.
LenVectors ==
    {lens \in UNION {[1..n -> 0..MaxRowLen] : n \in 0..MaxRows} :
        Sum(lens) <= MaxItems}

\* The batch whose sequences have the lengths lens and, concatenated, the
\* cells flat.
RECURSIVE Chunk(_, _)
Chunk(flat, lens) ==
    IF lens = <<>> THEN <<>>
    ELSE <<SubSeq(flat, 1, Head(lens))>>
         \o Chunk(SubSeq(flat, Head(lens) + 1, Len(flat)), Tail(lens))

\* What a constructor's outcome leaves in pc and grid.
Built(ret) ==
    /\ pc' = IF ret.tag = "Ok" THEN "returned" ELSE "failed"
    /\ grid' = ret.grid
    /\ UNCHANGED elsewhere

\* ------------------------------------------------- actions

Parse ==
    /\ pc = "new"
    /\ \E block \in Blocks, filler \in OptionCell :
        LET ret == Ok(parse(block, filler))
        IN  /\ Built(ret)
            /\ last' = [op |-> "parse", block |-> block, filler |-> filler,
                        ret |-> ret]

NewFilled ==
    /\ pc = "new"
    /\ \E width \in 0..MaxDim, h \in 0..MaxDim, base \in Cell, filler \in OptionCell :
        /\ width * h <= MaxItems
        /\ LET ret == Ok(new_filled(width, h, base, filler))
           IN  /\ Built(ret)
               /\ last' = [op |-> "new_filled", width |-> width, height |-> h,
                           base |-> base, filler |-> filler, ret |-> ret]

FromRows ==
    /\ pc = "new"
    /\ \E lens \in LenVectors, filler \in OptionCell :
        \E flat \in [1..Sum(lens) -> Cell] :
            LET batch == Chunk(flat, lens)
                ret == from_rows(batch, filler)
            IN  /\ Built(ret)
                /\ last' = [op |-> "from_rows", batch |-> batch,
                            filler |-> filler, ret |-> ret]

FromColumns ==
    /\ pc = "new"
    /\ \E lens \in LenVectors, filler \in OptionCell :
        \E flat \in [1..Sum(lens) -> Cell] :
            LET batch == Chunk(flat, lens)
                ret == from_columns(batch, filler)
            IN  /\ Built(ret)
                /\ last' = [op |-> "from_columns", batch |-> batch,
                            filler |-> filler, ret |-> ret]

Get ==
    /\ pc = "ready"
    /\ \E xy \in Coords :
        last' = [op |-> "get", xy |-> xy, ret |-> get(grid, xy)]
    /\ pc' = "returned"
    /\ UNCHANGED <<grid, elsewhere>>

\* if let Some(cell) = grid.get_mut(xy) { *cell = value }
GetMut ==
    /\ pc = "ready"
    /\ \E xy \in Coords, value \in Cell :
        LET ret == get_mut(grid, xy)
        IN  /\ grid' = WriteRef(grid, ret, value)
            /\ last' = [op |-> "get_mut", xy |-> xy, value |-> value, ret |-> ret]
    /\ pc' = "returned"
    /\ UNCHANGED elsewhere

SetIfInbounds ==
    /\ pc = "ready"
    /\ \E xy \in Coords, value \in Cell :
        LET ret == set_if_inbounds(grid, xy, value)
        IN  /\ grid' = ret.grid
            /\ last' = [op |-> "set_if_inbounds", xy |-> xy, value |-> value,
                        panic |-> ret.panic]
    /\ pc' = "returned"
    /\ UNCHANGED elsewhere

Height ==
    /\ pc = "ready"
    /\ last' = [op |-> "height", ret |-> height_call(grid)]
    /\ pc' = "returned"
    /\ UNCHANGED <<grid, elsewhere>>

Find ==
    /\ pc = "ready"
    /\ \E predicate \in SUBSET Cell :
        last' = [op |-> "find", predicate |-> predicate,
                 ret |-> find(grid, predicate)]
    /\ pc' = "returned"
    /\ UNCHANGED <<grid, elsewhere>>

FindOne ==
    /\ pc = "ready"
    /\ \E target \in Cell :
        last' = [op |-> "find_one", target |-> target,
                 ret |-> find_one(grid, target)]
    /\ pc' = "returned"
    /\ UNCHANGED <<grid, elsewhere>>

CardinalNeighbours ==
    /\ pc = "ready"
    /\ \E pos \in Coords :
        last' = [op |-> "cardinal_neighbours", pos |-> pos,
                 ret |-> cardinal_neighbours(grid, pos)]
    /\ pc' = "returned"
    /\ UNCHANGED <<grid, elsewhere>>

CardinalNeighboursWithWrapping ==
    /\ pc = "ready"
    /\ \E pos \in Coords :
        last' = [op |-> "cardinal_neighbours_with_wrapping", pos |-> pos,
                 ret |-> cardinal_neighbours_with_wrapping(grid, pos)]
    /\ pc' = "returned"
    /\ UNCHANGED <<grid, elsewhere>>

RowsIter ==
    /\ pc = "ready"
    /\ last' = [op |-> "rows_iter", ret |-> rows_iter(grid)]
    /\ pc' = "returned"
    /\ UNCHANGED <<grid, elsewhere>>

ColumnsIter ==
    /\ pc = "ready"
    /\ last' = [op |-> "columns_iter", ret |-> columns_iter(grid)]
    /\ pc' = "returned"
    /\ UNCHANGED <<grid, elsewhere>>

RowsRoundTrip ==
    /\ pc = "ready"
    /\ last' = [op |-> "rows_round_trip", ret |-> rows_round_trip(grid)]
    /\ pc' = "returned"
    /\ UNCHANGED <<grid, elsewhere>>

ColumnsRoundTrip ==
    /\ pc = "ready"
    /\ last' = [op |-> "columns_round_trip", ret |-> columns_round_trip(grid)]
    /\ pc' = "returned"
    /\ UNCHANGED <<grid, elsewhere>>

\* The caller is done with what the last call returned (a borrow of the grid
\* ends before the next call can take the grid mutably).
Discard ==
    /\ pc = "returned"
    /\ pc' = "ready"
    /\ last' = [op |-> "none"]
    /\ UNCHANGED <<grid, elsewhere>>

Next ==
    \/ Parse
    \/ NewFilled
    \/ FromRows
    \/ FromColumns
    \/ Get
    \/ GetMut
    \/ SetIfInbounds
    \/ Height
    \/ Find
    \/ FindOne
    \/ CardinalNeighbours
    \/ CardinalNeighboursWithWrapping
    \/ RowsIter
    \/ ColumnsIter
    \/ RowsRoundTrip
    \/ ColumnsRoundTrip
    \/ Discard

Spec == Init /\ [][Next]_vars

\* ------------------------------------------------- rectangle ranges

RectCorners == {XY(x, y) : x \in -1..MaxRect, y \in -1..MaxRect}

RectRangeInclusive ==
    /\ pc = "ready"
    /\ \E a \in RectCorners, b \in RectCorners :
        last' = [op |-> "rect_range_inclusive", a |-> a, b |-> b,
                 ret |-> rect_range_inclusive(grid, a, b)]
    /\ pc' = "returned"
    /\ UNCHANGED <<grid, elsewhere>>

XYRectRangeInclusive ==
    /\ pc = "ready"
    /\ \E a \in RectCorners, b \in RectCorners :
        last' = [op |-> "XY::rect_range_inclusive", a |-> a, b |-> b,
                 ret |-> XY_rect_range_inclusive(a, b)]
    /\ pc' = "returned"
    /\ UNCHANGED <<grid, elsewhere>>

NextRange ==
    \/ Parse
    \/ NewFilled
    \/ FromRows
    \/ FromColumns
    \/ RectRangeInclusive
    \/ XYRectRangeInclusive
    \/ Discard

SpecRange == Init /\ [][NextRange]_vars

\* ------------------------------------------------- turning a vector

\* A program takes a vector and turns it, one quarter turn at a time; last
\* holds the vector it started from, the turns made and the result so far.
InitXY ==
    /\ pc = "ready"
    /\ grid = NoGrid
    /\ last = [op |-> "none"]
    /\ ElsewhereIdle

TakeXY ==
    /\ pc = "ready"
    /\ \E build \in Builds, x \in I64, y \in I64 :
        last' = [op |-> "turns", build |-> build, v |-> XY(x, y),
                 path |-> <<>>, ret |-> XYResult(FALSE, XY(x, y))]
    /\ pc' = "returned"
    /\ UNCHANGED <<grid, elsewhere>>

TurnLeft ==
    /\ pc = "returned"
    /\ last.op = "turns"
    /\ ~last.ret.panic
    /\ Len(last.path) < MaxTurns
    /\ last' = [last EXCEPT !.path = Append(@, "left"),
                            !.ret = turn_left(last.build, last.ret.xy)]
    /\ UNCHANGED <<pc, grid, elsewhere>>

TurnRight ==
    /\ pc = "returned"
    /\ last.op = "turns"
    /\ ~last.ret.panic
    /\ Len(last.path) < MaxTurns
    /\ last' = [last EXCEPT !.path = Append(@, "right"),
                            !.ret = turn_right(last.build, last.ret.xy)]
    /\ UNCHANGED <<pc, grid, elsewhere>>

NextXY ==
    \/ TakeXY
    \/ TurnLeft
    \/ TurnRight
    \/ Discard

SpecXY == InitXY /\ [][NextXY]_vars

\* ------------------------------------------------- day 18: digging

\* The tiles a move digs after the tile it starts on, in order.
Dig(from, m) == [k \in 1..m.amount |-> xy_add(from, xy_mul(m.direction, k))]

Closed == Len(trail) > 1 /\ trail[Len(trail)] = XY(0, 0)

InitDig ==
    /\ pc = "ready"
    /\ grid = NoGrid
    /\ last = [op |-> "none"]
    /\ ElsewhereIdle

\* One more line of the input is parsed into a Move.  The inputs are the
\* move lists that dig no tile twice, but for coming back to the origin,
\* after which the input ends.
ParseMove ==
    /\ pc = "ready"
    /\ ~Closed
    /\ Len(moves) < MaxMoves
    /\ \E direction \in {UP, DOWN, LEFT, RIGHT}, amount \in 1..MaxAmount :
        LET m == Move(direction, amount)
            dug == Dig(trail[Len(trail)], m)
            seen == {trail[i] : i \in 1..Len(trail)}
        IN  /\ \A k \in 1..amount :
                  \/ dug[k] \notin seen
                  \/ k = amount /\ dug[k] = XY(0, 0)
            /\ moves' = Append(moves, m)
            /\ trail' = trail \o dug
    /\ UNCHANGED <<pc, grid, last, beamVars, otherVars>>

PartOne ==
    /\ pc = "ready"
    /\ last' = [op |-> "part_one", ret |-> part_one(moves)]
    /\ pc' = "returned"
    /\ UNCHANGED <<grid, elsewhere>>

NextDig ==
    \/ ParseMove
    \/ PartOne
    \/ Discard

SpecDig == InitDig /\ [][NextDig]_vars

\* ------------------------------------------------- day 16: running beams

\* The boards of w columns and h rows.
BoardsOf(w, h) ==
    {DenseGrid(w, None, items) : items \in [1..(w * h) -> MirrorTiles]}

\* The boards of at most n columns and n rows that have a tile.
SquareBoards(n) == UNION {BoardsOf(w, h) : w \in 1..n, h \in 1..n}

\* The boards of at most n tiles that have one.
Boards(n) ==
    UNION {UNION {BoardsOf(w, h) : h \in 1..(n \div w)} : w \in 1..n}

\* parse_grid("")
EmptyBoard == DenseGrid(0, None, <<>>)

\* The beams part_one and part_two hand to calc_total_power: they start one
\* tile off an edge and point at the board.
InitialBeams(brd) == {EdgeBeams(brd)[i] : i \in 1..Len(EdgeBeams(brd))}

\* One run of calc_total_power, by one thread, from any of these beams.
InitBeam ==
    /\ pc = "forked"
    /\ grid = NoGrid
    /\ last = [op |-> "none"]
    /\ DigIdle
    /\ OthersIdle
    /\ board \in SquareBoards(MaxSide) \cup {EmptyBoard}
    /\ pool = {"w1"}
    /\ \E b \in IF HeightPanics(board) THEN {Beam(XY(-1, 0), RIGHT)}
                ELSE InitialBeams(board) :
          edge_beams = <<b>>
    /\ runs = 0
    /\ energy_grids = EmptyMap
    /\ mutators = EmptyMap
    /\ wpc = [w \in Workers |-> "idle"]
    /\ energy_of = [w \in Workers |-> 0]
    /\ active_beams = [w \in Workers |-> <<>>]
    /\ cur = [w \in Workers |-> NoBeam]
    /\ max_energy = None

\* part_two, once it has built the four edges and handed them to the pool.
InitFork ==
    /\ pc = "forked"
    /\ grid = NoGrid
    /\ last = [op |-> "none"]
    /\ DigIdle
    /\ OthersIdle
    /\ board \in Boards(MaxForkTiles)
    /\ pool = Workers
    /\ edge_beams = EdgeBeams(board)
    /\ runs = 0
    /\ energy_grids = EmptyMap
    /\ mutators = EmptyMap
    /\ wpc = [w \in Workers |-> "idle"]
    /\ energy_of = [w \in Workers |-> 0]
    /\ active_beams = [w \in Workers |-> <<>>]
    /\ cur = [w \in Workers |-> NoBeam]
    /\ max_energy = None

\* The workers mutators has for grid g, with w added.
WithMutator(g, w) ==
    MapInsert(mutators, g, (IF g \in DOMAIN mutators THEN mutators[g] ELSE {}) \cup {w})

\* A worker takes the next beam and enters calc_total_power: it makes the
\* energy grid of the run (height() panics on a board of width 0) and the
\* queue that holds the beam.
TakeBeam(w) ==
    /\ pc = "forked"
    /\ w \in pool
    /\ wpc[w] = "idle"
    /\ edge_beams # <<>>
    /\ edge_beams' = Tail(edge_beams)
    /\ runs' = runs + 1
    /\ IF HeightPanics(board)
       THEN /\ wpc' = [wpc EXCEPT ![w] = "panicked"]
            /\ UNCHANGED <<energy_grids, mutators, energy_of, active_beams>>
       ELSE LET g == EnergyGridOf(runs + 1)
            IN  /\ energy_grids' =
                      MapInsert(energy_grids, g,
                                new_filled(board.width, height(board),
                                           TileEnergy_empty, None))
                /\ mutators' = WithMutator(g, w)
                /\ energy_of' = [energy_of EXCEPT ![w] = g]
                /\ active_beams' = [active_beams EXCEPT ![w] = <<Head(edge_beams)>>]
                /\ wpc' = [wpc EXCEPT ![w] = "loop"]
    /\ last' = [op |-> "calc_total_power", why |-> "begin", ret |-> None]
    /\ UNCHANGED <<pc, grid, digVars, otherVars, board, pool, cur, max_energy>>

\* while let Some(beam) = active_beams.pop_front()
PopBeam(w) ==
    /\ wpc[w] = "loop"
    /\ active_beams[w] # <<>>
    /\ cur' = [cur EXCEPT ![w] = [beam |-> Head(active_beams[w]), steps |-> 1]]
    /\ active_beams' = [active_beams EXCEPT ![w] = Tail(@)]
    /\ wpc' = [wpc EXCEPT ![w] = "propagate"]
    /\ last' = [op |-> "pop_front", why |-> "", ret |-> None]
    /\ UNCHANGED <<pc, grid, digVars, otherVars, board, pool, edge_beams, runs, energy_grids,
                   mutators, energy_of, max_energy>>

\* One iteration of propagate_beam's loop; when propagate_beam returns, the
\* beams it returns are pushed on the queue.
Propagate(w) ==
    /\ wpc[w] = "propagate"
    /\ LET g == energy_of[w]
           r == PropagateStep(cur[w].beam, cur[w].steps, board, energy_grids[g])
       IN  /\ energy_grids' = [energy_grids EXCEPT ![g] = r.energy]
           /\ mutators' = IF r.energy # energy_grids[g] THEN WithMutator(g, w)
                          ELSE mutators
           /\ IF r.returned
              THEN /\ active_beams' = [active_beams EXCEPT ![w] = @ \o r.beams]
                   /\ wpc' = [wpc EXCEPT ![w] = "loop"]
                   /\ cur' = [cur EXCEPT ![w] = NoBeam]
              ELSE /\ cur' = [cur EXCEPT ![w].steps = @ + 1]
                   /\ UNCHANGED <<active_beams, wpc>>
           /\ last' = [op |-> "propagate_beam", why |-> r.why, ret |-> None]
    /\ UNCHANGED <<pc, grid, digVars, otherVars, board, pool, edge_beams, runs, energy_of,
                   max_energy>>

\* The queue is empty: calc_total_power returns the number of powered tiles
\* and drops its energy grid; the power goes into the running maximum.
Finish(w) ==
    /\ wpc[w] = "loop"
    /\ active_beams[w] = <<>>
    /\ LET power == PoweredCount(energy_grids[energy_of[w]])
       IN  /\ max_energy' = IF max_energy = None THEN Some(power)
                            ELSE Some(max(max_energy[1], power))
           /\ last' = [op |-> "calc_total_power", why |-> "end", ret |-> Some(power)]
    /\ energy_grids' = [energy_grids EXCEPT ![energy_of[w]] = NoGrid]
    /\ mutators' = [g \in DOMAIN mutators \ {energy_of[w]} |-> mutators[g]]
    /\ wpc' = [wpc EXCEPT ![w] = "idle"]
    /\ UNCHANGED <<pc, grid, digVars, otherVars, board, pool, edge_beams, runs,
                   energy_of, active_beams, cur>>

\* Every beam has been taken and every run has returned: max() returns.
Join ==
    /\ pc = "forked"
    /\ edge_beams = <<>>
    /\ \A w \in Workers : wpc[w] = "idle"
    /\ pc' = "returned"
    /\ last' = [op |-> "max", why |-> "", ret |-> max_energy]
    /\ UNCHANGED <<grid, elsewhere>>

NextBeam ==
    \/ \E w \in Workers : TakeBeam(w)
    \/ \E w \in Workers : PopBeam(w)
    \/ \E w \in Workers : Propagate(w)
    \/ \E w \in Workers : Finish(w)
    \/ Join

\* A thread that can take a step takes one.
SpecBeam == InitBeam /\ [][NextBeam]_vars /\ WF_vars(NextBeam)

SpecFork == InitFork /\ [][NextBeam]_vars

\* ------------------------------------------------- day 14: tilting

\* The sequences of at most n tiles.
Lines(n) == UNION {[1..k -> ReflectorTile] : k \in 0..n}

\* What parse returns for day 14's inputs: the width is the length of the
\* first line, the items are the tiles of all the lines.
Platforms ==
    {DenseGrid(w, Some(OBSTACLE), items) :
        w \in 0..MaxRowLen, items \in Lines(MaxPlatform)}

InitTilt ==
    /\ pc = "ready"
    /\ grid \in {g \in Platforms : Len(g.items) >= g.width}
    /\ last = [op |-> "none"]
    /\ ElsewhereIdle

MoveAllTheWay ==
    /\ pc = "ready"
    /\ \E v \in Lines(MaxLine) :
        last' = [op |-> "move_all_the_way", v |-> v, ret |-> move_all_the_way(v)]
    /\ pc' = "returned"
    /\ UNCHANGED <<grid, elsewhere>>

\* grid = move_north(&grid)
MoveNorth ==
    /\ pc = "ready"
    /\ LET ret == move_north(grid)
       IN  /\ last' = [op |-> "move_north", ret |-> ret]
           /\ grid' = IF ret.tag = "Ok" THEN ret.grid ELSE grid
           /\ pc' = IF ret.tag = "Ok" THEN "returned" ELSE "failed"
    /\ UNCHANGED elsewhere

NextTilt ==
    \/ MoveAllTheWay
    \/ MoveNorth
    \/ Discard

SpecTilt == InitTilt /\ [][NextTilt]_vars

\* ------------------------------------------------- day 20: pulses

\* The names of the input: "a" is the flip-flop, "rx" is declared nowhere.
ModuleNames == {"a", "rx"}

RECURSIVE Connected(_, _)
Connected(module, names) ==
    IF names = <<>> THEN module
    ELSE Connected(connect_output(module, Head(names)), Tail(names))

\* build, for an input that declares the flip-flop %a with these outputs.
build(outputs) == Connected(FlipFlopModule_new("a"), outputs)

InitPulse ==
    /\ pc = "ready"
    /\ grid = NoGrid
    /\ last = [op |-> "none"]
    /\ DigIdle
    /\ BeamIdle
    /\ LensIdle
    /\ SparseIdle
    /\ \E n \in 0..MaxOutputs : \E outputs \in [1..n -> ModuleNames] :
          flipflop = build(outputs)
    /\ pending = <<>>
    /\ lows = 0

\* step is called: let mut pending = VecDeque::from([input])
Step ==
    /\ pc = "ready"
    /\ pending = <<>>
    /\ \E signal \in {High, Low}, target \in ModuleNames :
          pending' = <<Transmission(signal, target, "button")>>
    /\ last' = [op |-> "step"]
    /\ UNCHANGED <<pc, grid, digVars, beamVars, lensVars, sparseVars, flipflop, lows>>

\* One iteration of step's loop, for a transmission whose target is in the
\* map: the flip-flop handles it and what it returns is queued.
Handle ==
    /\ pc = "ready"
    /\ pending # <<>>
    /\ Head(pending).target = flipflop.name
    /\ lows < MaxLows
    /\ LET t == Head(pending)
           h == handle(flipflop, t)
       IN  /\ flipflop' = h.module
           /\ pending' = Tail(pending) \o h.ret
           /\ lows' = IF t.signal = Low THEN lows + 1 ELSE lows
           /\ last' = [op |-> "handle", signal |-> t.signal,
                       was |-> flipflop, ret |-> h.ret]
    /\ UNCHANGED <<pc, grid, digVars, beamVars, lensVars, sparseVars>>

\* One iteration of step's loop, for a transmission whose target is not in
\* the map.
Unhandled ==
    /\ pc = "ready"
    /\ pending # <<>>
    /\ Head(pending).target # flipflop.name
    /\ pending' = Tail(pending)
    /\ last' = [op |-> "unhandled"]
    /\ UNCHANGED <<pc, grid, digVars, beamVars, lensVars, sparseVars, flipflop, lows>>

NextPulse ==
    \/ Step
    \/ Handle
    \/ Unhandled

SpecPulse == InitPulse /\ [][NextPulse]_vars

\* ------------------------------------------------- day 15: the steps

\* The labels of the input: "aq", "pr" and "qa", which hash alike, and "a".
Labels == {<<97, 113>>, <<112, 114>>, <<113, 97>>, <<97>>}

Operations == {Insert(fl) : fl \in 0..MaxFocal} \cup {Remove}

\* part_two has made its boxes.
InitLens ==
    /\ pc = "ready"
    /\ grid = NoGrid
    /\ last = [op |-> "none"]
    /\ DigIdle
    /\ BeamIdle
    /\ PulseIdle
    /\ SparseIdle
    /\ boxes = [i \in 1..NumBoxes |-> <<>>]

\* for step in steps { .. }, one step of the input.
ApplyStep ==
    /\ pc = "ready"
    /\ \E label \in Labels, operation \in Operations :
        LET step == InitStep(label, operation)
            ret == apply_step(boxes, step)
        IN  /\ boxes' = ret.boxes
            /\ pc' = IF ret.panic THEN "panicked" ELSE "ready"
            /\ last' = [op |-> "step", step |-> step, before |-> boxes]
    /\ UNCHANGED <<grid, digVars, beamVars, pulseVars, sparseVars>>

NextLens == ApplyStep

SpecLens == InitLens /\ [][NextLens]_vars

\* ------------------------------------------------- SparseGrid: inserting

SparseCoords == {XY(x, y) : x \in -MaxSpan..MaxSpan, y \in -MaxSpan..MaxSpan}

\* SparseGrid::new(filler)
InitSparse ==
    /\ pc = "ready"
    /\ grid = NoGrid
    /\ last = [op |-> "none"]
    /\ DigIdle
    /\ BeamIdle
    /\ PulseIdle
    /\ LensIdle
    /\ sparse \in {SparseGrid_new(filler) : filler \in {None, Some(0)}}
    /\ inserted = {}

SparseInsert ==
    /\ pc = "ready"
    /\ \E at \in SparseCoords :
        /\ at \in inserted \/ Cardinality(inserted) < MaxInserts
        /\ sparse' = SparseGrid_insert(sparse, at, 1)
        /\ inserted' = inserted \cup {at}
        /\ last' = [op |-> "insert", at |-> at, before |-> sparse, ret |-> None]
    /\ UNCHANGED <<pc, grid, digVars, beamVars, pulseVars, lensVars>>

SparseGet ==
    /\ pc = "ready"
    /\ \E at \in SparseCoords :
        last' = [op |-> "get", at |-> at, before |-> sparse,
                 ret |-> SparseGrid_get(sparse, at)]
    /\ UNCHANGED <<pc, grid, digVars, beamVars, pulseVars, lensVars, sparseVars>>

NextSparse ==
    \/ SparseInsert
    \/ SparseGet

SpecSparse == InitSparse /\ [][NextSparse]_vars

\* ------------------------------------------------- what the claims speak of

\* xy lies inside [0, width) x [0, height), height being len / width.
InBounds(g, xy) ==
    /\ g.width >= 1
    /\ 0 <= xy[1] /\ xy[1] < g.width
    /\ 0 <= xy[2] /\ xy[2] < Len(g.items) \div g.width

\* A grid is held.
HasGrid == pc \in {"ready", "returned"}

\* ------------------------------------------------- C1

\* C1: on a grid of width W >= 1 and height H = len / W, get of a coordinate
\* (x, y) with 0 <= x < W and 0 <= y < H returns a reference to the cell at
\* buffer index y * W + x: not the filler, not None.
C1_GetReturnsStoredCell ==
    (last.op = "get" /\ InBounds(grid, last.xy)) =>
        /\ last.ret = RefItem(last.xy[2] * grid.width + last.xy[1])
        /\ Deref(grid, last.ret)
             = Some(grid.items[last.xy[2] * grid.width + last.xy[1] + 1])

\* get has returned for an in-bounds coordinate off both axes of a grid that
\* has a filler and more than one row.
C1_Witness ==
    /\ last.op = "get"
    /\ InBounds(grid, last.xy)
    /\ last.xy[1] >= 1 /\ last.xy[2] >= 1
    /\ grid.filler # None
    /\ last.ret.kind = "item"

\* ------------------------------------------------- C2

\* C2: get of a coordinate outside [0, width) x [0, height) returns the
\* filler when the grid has one and None when it has none.
C2_GetOutOfBounds ==
    (last.op = "get" /\ ~InBounds(grid, last.xy)) =>
        last.ret = IF grid.filler # None THEN RefFiller ELSE RefNone

\* get has returned the filler for x = width on a row that is followed by
\* another row (so that index y * width + x is a cell of the buffer).
C2_Witness ==
    /\ last.op = "get"
    /\ grid.width >= 1
    /\ last.xy[1] = grid.width
    /\ last.xy[2] >= 0
    /\ (last.xy[2] + 1) * grid.width < Len(grid.items)
    /\ grid.filler # None
    /\ last.ret = RefFiller

\* ------------------------------------------------- C3

\* C3: get, get_mut and set_if_inbounds do not panic, on any grid a
\* constructor returned and for any coordinate.
C3_PointAccessNeverPanics ==
    /\ last.op \in {"get", "get_mut"} => last.ret.kind # "panic"
    /\ last.op = "set_if_inbounds" => ~last.panic

\* set_if_inbounds has returned on a grid of width 0 that holds cells, where
\* height() would divide by zero.
C3_Witness ==
    /\ last.op = "set_if_inbounds"
    /\ grid.width = 0
    /\ Len(grid.items) > 0
    /\ last.xy = XY(0, 0)
    /\ ~last.panic

\* ------------------------------------------------- C4

\* C4: in every grid state the buffer length items.len() is an exact multiple
\* of width.
C4_LenMultipleOfWidth ==
    HasGrid => \E k \in 0..Len(grid.items) : Len(grid.items) = k * grid.width

\* ------------------------------------------------- C5

\* All sequences of a batch have one length, and there is at least one.
Uniform(batch) ==
    /\ batch # <<>>
    /\ \A i, j \in 1..Len(batch) : Len(batch[i]) = Len(batch[j])

\* C5: from_rows and from_columns return an error (no grid, no panic) for an
\* empty batch and for a batch in which two sequences differ in length,
\* wherever they sit; they return a grid exactly for a non-empty batch of
\* sequences of one length.
C5_ReassemblyErrors ==
    last.op \in {"from_rows", "from_columns"} =>
        /\ last.ret.tag # "Panic"
        /\ last.ret.tag = "Ok" <=> Uniform(last.batch)
        /\ ~Uniform(last.batch) =>
              /\ last.ret.tag = "Err"
              /\ pc = "failed"
              /\ grid = NoGrid

\* from_rows has returned an error for a batch of three whose first and last
\* sequences agree in length and whose middle one differs.
C5_Witness ==
    /\ last.op = "from_rows"
    /\ Len(last.batch) = 3
    /\ Len(last.batch[1]) = Len(last.batch[3])
    /\ Len(last.batch[1]) # Len(last.batch[2])
    /\ last.ret.tag = "Err"
\* ------------------------------------------------- C6

\* C6 as stated: for every grid the constructors can return, from_rows over
\* rows_iter (with the grid's filler) succeeds and yields a grid equal to it.
C6_RowsRoundTripEveryGrid ==
    last.op = "rows_round_trip" => last.ret = Ok(grid)

\* The cells of g that lie in its complete rows: the first width * height.
CompleteRows(g) ==
    SubSeq(g.items, 1, g.width * (Len(g.items) \div g.width))

\* C6 as amended: for every grid of width >= 1 that holds at least one
\* complete row, from_rows over rows_iter succeeds and yields a grid of the
\* same width and filler holding the cells of the complete rows; it equals the
\* grid, cell for cell, when items.len() is a multiple of width.
C6_RowsRoundTrip ==
    (/\ last.op = "rows_round_trip"
     /\ grid.width >= 1
     /\ Len(grid.items) >= grid.width) =>
        /\ last.ret = Ok(DenseGrid(grid.width, grid.filler, CompleteRows(grid)))
        /\ Len(grid.items) % grid.width = 0 => last.ret = Ok(grid)

\* The round trip through rows has returned for a grid of one row of two
\* different cells.
C6_Witness ==
    /\ last.op = "rows_round_trip"
    /\ grid.width = 2
    /\ Len(grid.items) = 2
    /\ grid.items[1] # grid.items[2]
    /\ last.ret = Ok(grid)

\* ------------------------------------------------- C7

\* C7 as stated: for every grid the constructors can return, from_columns over
\* columns_iter (with the grid's filler) succeeds and yields a grid equal to it.
C7_ColumnsRoundTripEveryGrid ==
    last.op = "columns_round_trip" => last.ret = Ok(grid)

\* C7 as amended: for every grid of width >= 1 (zero rows included),
\* from_columns over columns_iter succeeds and yields a grid of the same width
\* and filler holding the cells of the complete rows; it equals the grid, cell
\* for cell, when items.len() is a multiple of width.
C7_ColumnsRoundTrip ==
    (/\ last.op = "columns_round_trip"
     /\ grid.width >= 1) =>
        /\ last.ret = Ok(DenseGrid(grid.width, grid.filler, CompleteRows(grid)))
        /\ Len(grid.items) % grid.width = 0 => last.ret = Ok(grid)

\* The round trip through columns has returned for a 2 x 2 grid whose
\* transpose differs from it.
C7_Witness ==
    /\ last.op = "columns_round_trip"
    /\ grid.width = 2
    /\ Len(grid.items) = 4
    /\ grid.items[2] # grid.items[3]
    /\ last.ret = Ok(grid)

\* ------------------------------------------------- C8

\* C8: a write of v through get_mut at an in-bounds coordinate p makes get(p)
\* return v and leaves get(q) as it was for every other in-bounds q (so that
\* after any sequence of such writes get(p) is the last value written to p).
C8_GetMutWriteObserved ==
    [][(last'.op = "get_mut" /\ InBounds(grid, last'.xy)) =>
          /\ Deref(grid', get(grid', last'.xy)) = Some(last'.value)
          /\ \A q \in Coords :
                (q # last'.xy /\ InBounds(grid, q)) =>
                    /\ InBounds(grid', q)
                    /\ Deref(grid', get(grid', q)) = Deref(grid, get(grid, q))
      ]_vars

\* A 1 has been written through get_mut off both axes of a grid in which
\* another in-bounds cell still reads 0.
C8_Witness ==
    /\ last.op = "get_mut"
    /\ InBounds(grid, last.xy)
    /\ last.xy[1] >= 1 /\ last.xy[2] >= 1
    /\ last.value = 1
    /\ Deref(grid, get(grid, last.xy)) = Some(1)
    /\ \E q \in Coords : InBounds(grid, q) /\ Deref(grid, get(grid, q)) = Some(0)

\* ------------------------------------------------- C9

\* C9: set_if_inbounds with a coordinate outside [0, width) x [0, height)
\* changes nothing: width, filler and every cell stay as they were.
C9_SetOutOfBoundsNoOp ==
    [][(last'.op = "set_if_inbounds" /\ ~InBounds(grid, last'.xy)) =>
          /\ grid' = grid
          /\ ~last'.panic
      ]_vars

\* set_if_inbounds has returned for x = width on a row followed by another
\* row whose first cell differs from the value passed.
C9_Witness ==
    /\ last.op = "set_if_inbounds"
    /\ grid.width >= 1
    /\ last.xy[1] = grid.width
    /\ last.xy[2] >= 0
    /\ (last.xy[2] + 2) * grid.width <= Len(grid.items)
    /\ grid.items[(last.xy[2] + 1) * grid.width + 1] # last.value

\* ------------------------------------------------- C10

\* C10: get_mut of an out-of-bounds coordinate returns None and changes
\* nothing, also on a grid with a filler, where get of the same coordinate
\* returns the filler.
C10_GetMutOutOfBounds ==
    [][(last'.op = "get_mut" /\ ~InBounds(grid, last'.xy)) =>
          /\ last'.ret = RefNone
          /\ grid' = grid
          /\ grid.filler # None => get(grid', last'.xy) = RefFiller
      ]_vars

\* get_mut has returned None for an out-of-bounds coordinate of a grid whose
\* filler differs from the value the caller meant to write.
C10_Witness ==
    /\ last.op = "get_mut"
    /\ ~InBounds(grid, last.xy)
    /\ grid.filler # None
    /\ grid.filler # Some(last.value)
    /\ last.ret = RefNone
\* ------------------------------------------------- C11

\* C11: a grid is never resized: no call on a grid changes its width, its
\* buffer length (hence its height) or its filler, and set_if_inbounds(p, v)
\* with p in bounds changes the cell at index y * width + x to v and no
\* other cell.
C11_NeverResized ==
    [][HasGrid =>
          /\ grid'.width = grid.width
          /\ Len(grid'.items) = Len(grid.items)
          /\ height_call(grid') = height_call(grid)
          /\ grid'.filler = grid.filler
          /\ (last'.op = "set_if_inbounds" /\ InBounds(grid, last'.xy)) =>
                /\ ~last'.panic
                /\ grid'.items =
                     [grid.items EXCEPT
                        ![last'.xy[2] * grid.width + last'.xy[1] + 1] = last'.value]
      ]_vars

\* set_if_inbounds has written off both axes of a grid with a filler, in
\* which another cell holds the other value.
C11_Witness ==
    /\ last.op = "set_if_inbounds"
    /\ InBounds(grid, last.xy)
    /\ last.xy[1] >= 1 /\ last.xy[2] >= 1
    /\ grid.filler # None
    /\ grid.items[last.xy[2] * grid.width + last.xy[1] + 1] = last.value
    /\ \E i \in 1..Len(grid.items) : grid.items[i] # last.value
\* ------------------------------------------------- C12

\* C12: reassembly puts every element where its place in the batch says: a
\* grid from_rows returns has width = the common row length and
\* get((x, y)) = rows[y][x]; a grid from_columns returns has width = the number
\* of columns, height = the common column length and get((x, y)) = cols[x][y].
C12_ReassemblyPlacement ==
    /\ (last.op = "from_rows" /\ last.ret.tag = "Ok") =>
          /\ grid = last.ret.grid
          /\ grid.width = Len(last.batch[1])
          /\ Len(grid.items) = Len(last.batch) * Len(last.batch[1])
          /\ \A y \in 1..Len(last.batch) : \A x \in 1..Len(last.batch[y]) :
                /\ get(grid, XY(x - 1, y - 1)).kind = "item"
                /\ Deref(grid, get(grid, XY(x - 1, y - 1))) = Some(last.batch[y][x])
    /\ (last.op = "from_columns" /\ last.ret.tag = "Ok") =>
          /\ grid = last.ret.grid
          /\ grid.width = Len(last.batch)
          /\ height_call(grid) = [panic |-> FALSE, value |-> Len(last.batch[1])]
          /\ \A x \in 1..Len(last.batch) : \A y \in 1..Len(last.batch[x]) :
                /\ get(grid, XY(x - 1, y - 1)).kind = "item"
                /\ Deref(grid, get(grid, XY(x - 1, y - 1))) = Some(last.batch[x][y])

\* from_columns has returned a grid for three columns of two cells whose
\* first column holds two different cells.
C12_Witness ==
    /\ last.op = "from_columns"
    /\ last.ret.tag = "Ok"
    /\ Len(last.batch) = 3
    /\ Len(last.batch[1]) = 2
    /\ last.batch[1][1] # last.batch[1][2]
    /\ last.batch[1][2] # last.batch[2][1]
\* ------------------------------------------------- C13

\* The trimmed lines of a text block.
TrimmedLines(block) ==
    LET lines == SplitLines(block)
    IN  [i \in 1..Len(lines) |-> Trim(lines[i])]

\* Every trimmed line of the block has as many characters as the first.
Rectangular(block) ==
    \A i \in 1..Len(TrimmedLines(block)) :
        Len(TrimmedLines(block)[i]) = Len(TrimmedLines(block)[1])

\* The grid has width w and height h and holds, at (x, y), the parsed
\* character x of line y.
HoldsLines(g, lines, w, h) ==
    /\ g.width = w
    /\ height_call(g) = [panic |-> FALSE, value |-> h]
    /\ \A y \in 1..h : \A x \in 1..w :
          /\ get(g, XY(x - 1, y - 1)).kind = "item"
          /\ Deref(g, get(g, XY(x - 1, y - 1))) = Some(cell_parser(lines[y][x]))

\* C13: parse of a rectangular text block of H lines with W characters each
\* (after trimming) yields a grid of width W and height H in which
\* get((x, y)) is the cell parser applied to character x of line y.  Stated
\* for W >= 1.
C13_ParseRectangular ==
    (/\ last.op = "parse"
     /\ Rectangular(last.block)
     /\ Len(TrimmedLines(last.block)[1]) >= 1) =>
        HoldsLines(grid, TrimmedLines(last.block),
                   Len(TrimmedLines(last.block)[1]), Len(TrimmedLines(last.block)))

\* C13, for the blocks on which the code does what the claim says: the
\* lines are not empty and every character takes one byte.
C13_ParseRectangularOneByte ==
    (/\ last.op = "parse"
     /\ Rectangular(last.block)
     /\ Len(TrimmedLines(last.block)[1]) >= 1
     /\ \A i \in 1..Len(last.block) : Utf8Len(last.block[i]) = 1) =>
        HoldsLines(grid, TrimmedLines(last.block),
                   Len(TrimmedLines(last.block)[1]), Len(TrimmedLines(last.block)))
\* ------------------------------------------------- C14

\* The length in bytes of the first trimmed line of a block.
FirstLineBytes(block) ==
    LET first == TrimmedLines(block)[1]
    IN  Sum([i \in 1..Len(first) |-> Utf8Len(first[i])])

\* The number of characters of all trimmed lines of a block.
TotalCells(block) ==
    Sum([i \in 1..Len(TrimmedLines(block)) |-> Len(TrimmedLines(block)[i])])

\* No in-bounds coordinate reaches a cell past the complete rows: get hands
\* out cells below width * height only, and every one of those.
TailUnreachable(g) ==
    LET h == Len(g.items) \div g.width
    IN  /\ \A c \in Coords :
              get(g, c).kind = "item" =>
                  /\ get(g, c).idx < g.width * h
                  /\ InBounds(g, c)
        /\ \A c \in Coords : InBounds(g, c) => get(g, c).kind = "item"

\* C14 as stated: parse of a block with ragged rows still returns a grid,
\* whose width is the first line's length and whose height is the integer
\* quotient (number of cells) / width, so that the cells past width * height
\* are outside every in-bounds coordinate.
C14_RaggedParseEveryBlock ==
    (last.op = "parse" /\ ~Rectangular(last.block)) =>
        /\ last.ret.tag = "Ok" /\ pc = "returned"
        /\ grid.width = FirstLineBytes(last.block)
        /\ Len(grid.items) = TotalCells(last.block)
        /\ height_call(grid).panic = FALSE
        /\ height_call(grid).value * grid.width <= Len(grid.items)
        /\ Len(grid.items) < (height_call(grid).value + 1) * grid.width

\* C14 as amended: parse of a block with ragged rows still returns a grid,
\* whose width is the length in bytes of the first trimmed line; when that
\* line is not empty, height() is the integer quotient (number of cells) /
\* width and the cells past width * height are outside every in-bounds
\* coordinate.
C14_RaggedParse ==
    (last.op = "parse" /\ ~Rectangular(last.block)) =>
        /\ last.ret.tag = "Ok" /\ pc = "returned"
        /\ grid.width = FirstLineBytes(last.block)
        /\ Len(grid.items) = TotalCells(last.block)
        /\ FirstLineBytes(last.block) >= 1 =>
              /\ height_call(grid).panic = FALSE
              /\ height_call(grid).value * grid.width <= Len(grid.items)
              /\ Len(grid.items) < (height_call(grid).value + 1) * grid.width
              /\ TailUnreachable(grid)

\* parse has returned a grid of width 2 holding 3 cells for a ragged block
\* whose first line has two characters.
C14_Witness ==
    /\ last.op = "parse"
    /\ ~Rectangular(last.block)
    /\ Len(TrimmedLines(last.block)[1]) = 2
    /\ grid.width = 2
    /\ Len(grid.items) = 3
    /\ height_call(grid) = [panic |-> FALSE, value |-> 1]
\* ------------------------------------------------- C15

\* get returns base at every coordinate inside [0, w) x [0, h) and the filler
\* (None when there is none) at every other coordinate.
BaseInsideFillerOutside(g, w, h, base) ==
    \A c \in Coords :
        IF 0 <= c[1] /\ c[1] < w /\ 0 <= c[2] /\ c[2] < h
        THEN get(g, c).kind = "item" /\ Deref(g, get(g, c)) = Some(base)
        ELSE get(g, c) = (IF g.filler # None THEN RefFiller ELSE RefNone)

\* C15 as stated: new_filled(w, h, base, filler) yields a grid of width w and
\* height h in which get returns base inside [0, w) x [0, h) and the filler
\* (or None) outside.
C15_NewFilledEverySize ==
    last.op = "new_filled" =>
        /\ grid.width = last.width
        /\ grid.filler = last.filler
        /\ height_call(grid) = [panic |-> FALSE, value |-> last.height]
        /\ BaseInsideFillerOutside(grid, last.width, last.height, last.base)

\* C15 as amended: new_filled(w, h, base, filler) yields a grid of width w in
\* which get returns base inside [0, w) x [0, h) and the filler (or None)
\* outside; for w >= 1 its height is h, and for w = 0 height() panics.
C15_NewFilled ==
    last.op = "new_filled" =>
        /\ grid.width = last.width
        /\ grid.filler = last.filler
        /\ BaseInsideFillerOutside(grid, last.width, last.height, last.base)
        /\ last.width >= 1 =>
              height_call(grid) = [panic |-> FALSE, value |-> last.height]
        /\ last.width = 0 => height_call(grid).panic

\* new_filled has returned a grid of 3 columns and 2 rows whose filler is
\* another value than base.
C15_Witness ==
    /\ last.op = "new_filled"
    /\ last.width = 3 /\ last.height = 2
    /\ last.filler # None
    /\ last.filler # Some(last.base)
    /\ Len(grid.items) = 6
\* ------------------------------------------------- C16

\* The 0-based buffer indices of the cells of g that satisfy the predicate.
Matches(g, predicate) ==
    {i \in 0..(Len(g.items) - 1) : g.items[i + 1] \in predicate}

\* i is the first match, and xy is its coordinate (i mod width, i div width).
FirstMatchAt(g, predicate, i, xy) ==
    /\ i \in Matches(g, predicate)
    /\ \A j \in Matches(g, predicate) : i <= j
    /\ g.width >= 1
    /\ xy = XY(i % g.width, i \div g.width)
    /\ \A j \in Matches(g, predicate) :
          \/ xy[2] < j \div g.width
          \/ xy[2] = j \div g.width /\ xy[1] <= j % g.width

\* C16: find(predicate) returns the matching cell that comes first in
\* row-major order, with the coordinate (index mod width, index div width),
\* and None exactly when no cell of the buffer satisfies the predicate;
\* find_one(target) returns the same coordinate for "equals target".
C16_FindFirstMatch ==
    /\ last.op = "find" =>
          IF Matches(grid, last.predicate) = {}
          THEN last.ret = FoundNone
          ELSE /\ last.ret.kind = "some"
               /\ FirstMatchAt(grid, last.predicate, last.ret.idx, last.ret.xy)
    /\ last.op = "find_one" =>
          IF Matches(grid, {last.target}) = {}
          THEN last.ret.kind = "none"
          ELSE /\ last.ret.kind = "some"
               /\ \E i \in Matches(grid, {last.target}) :
                     FirstMatchAt(grid, {last.target}, i, last.ret.xy)

\* C16, on the grids of width >= 1.
C16_FindFirstMatchWidthPositive ==
    grid.width >= 1 => C16_FindFirstMatch
\* ------------------------------------------------- C17

\* The reference get returns for an in-bounds coordinate.
CellRef(g, xy) == RefItem(xy[2] * g.width + xy[1])

\* C17: for a position (x, y) inside a W x H grid,
\* cardinal_neighbours_with_wrapping yields, in the order up, down, left,
\* right, (x, (y-1) mod H), (x, (y+1) mod H), ((x-1) mod W, y),
\* ((x+1) mod W, y), each with get of that coordinate; every one of them is
\* in bounds.
C17_WrappingNeighbours ==
    (last.op = "cardinal_neighbours_with_wrapping" /\ InBounds(grid, last.pos)) =>
        LET W == grid.width
            H == Len(grid.items) \div grid.width
            x == last.pos[1]
            y == last.pos[2]
            want == << XY(x, (y - 1 + H) % H), XY(x, (y + 1) % H),
                       XY((x - 1 + W) % W, y), XY((x + 1) % W, y) >>
        IN  /\ ~last.ret.panic
            /\ Len(last.ret.pairs) = 4
            /\ \A k \in 1..4 :
                  /\ last.ret.pairs[k].xy = want[k]
                  /\ InBounds(grid, want[k])
                  /\ last.ret.pairs[k].ret = CellRef(grid, want[k])

\* The wrapping neighbours of (0, 0) have been taken on a grid of 3 columns
\* and 2 rows: left wraps to (2, 0), up wraps to (0, 1).
C17_Witness ==
    /\ last.op = "cardinal_neighbours_with_wrapping"
    /\ last.pos = XY(0, 0)
    /\ grid.width = 3
    /\ Len(grid.items) = 6
    /\ ~last.ret.panic
    /\ last.ret.pairs[1].xy = XY(0, 1)
    /\ last.ret.pairs[3].xy = XY(2, 0)

\* ------------------------------------------------- C18

\* C18: cardinal_neighbours(p) yields exactly four pairs, in the order up
\* (0,-1), down (0,1), left (-1,0), right (1,0): the coordinate p + d as it
\* is, with get(p + d); a neighbour off the edge comes with the filler or
\* None, it is not skipped.
C18_CardinalNeighbours ==
    last.op = "cardinal_neighbours" =>
        LET x == last.pos[1]
            y == last.pos[2]
            want == << XY(x, y - 1), XY(x, y + 1), XY(x - 1, y), XY(x + 1, y) >>
        IN  /\ Len(last.ret) = 4
            /\ \A k \in 1..4 :
                  /\ last.ret[k].xy = want[k]
                  /\ last.ret[k].ret =
                       IF InBounds(grid, want[k]) THEN CellRef(grid, want[k])
                       ELSE IF grid.filler # None THEN RefFiller
                       ELSE RefNone

\* The neighbours of the corner (0, 0) have been taken on a grid without a
\* filler that has more than one row and column: up and left are None, down
\* and right are cells.
C18_Witness ==
    /\ last.op = "cardinal_neighbours"
    /\ last.pos = XY(0, 0)
    /\ grid.filler = None
    /\ Len(last.ret) = 4
    /\ last.ret[1].ret = RefNone
    /\ last.ret[2].ret.kind = "item"
    /\ last.ret[3].ret = RefNone
    /\ last.ret[4].ret.kind = "item"
\* ------------------------------------------------- C19

Abs(n) == IF n >= 0 THEN n ELSE 0 - n

\* What get has for a coordinate: its cell inside the grid, the filler (or
\* nothing) outside.
CellOrFiller(g, xy) ==
    IF InBounds(g, xy) THEN CellRef(g, xy)
    ELSE IF g.filler # None THEN RefFiller
    ELSE RefNone

\* C19: rect_range_inclusive(a, b) yields exactly
\* (|a.x - b.x| + 1) * (|a.y - b.y| + 1) pairs, one per coordinate of the
\* inclusive bounding rectangle of a and b, in row-major order (y ascending,
\* x ascending within a y), each with get of its coordinate.
C19_RectRange ==
    last.op = "rect_range_inclusive" =>
        LET a == last.a
            b == last.b
            w == Abs(a[1] - b[1]) + 1
            h == Abs(a[2] - b[2]) + 1
            x0 == min(a[1], b[1])
            y0 == min(a[2], b[2])
        IN  /\ Len(last.ret) = w * h
            /\ \A k \in 1..(w * h) :
                  /\ last.ret[k].xy = XY(x0 + ((k - 1) % w), y0 + ((k - 1) \div w))
                  /\ last.ret[k].ret = CellOrFiller(grid, last.ret[k].xy)
            /\ \A x \in x0..(x0 + w - 1), y \in y0..(y0 + h - 1) :
                  Cardinality({k \in 1..Len(last.ret) : last.ret[k].xy = XY(x, y)}) = 1

\* A range of 3 columns and 2 rows, given by its top-right and bottom-left
\* corners and reaching outside the grid on the left, has been taken.
C19_Witness ==
    /\ last.op = "rect_range_inclusive"
    /\ last.a = XY(1, 0)
    /\ last.b = XY(-1, 1)
    /\ InBounds(grid, XY(1, 1))
    /\ Len(last.ret) = 6
    /\ last.ret[1].xy = XY(-1, 0)
    /\ last.ret[2].ret.kind = "item"
    /\ last.ret[4].xy = XY(-1, 1)

\* ------------------------------------------------- C20

\* C20: DenseGrid::rect_range_inclusive(a, b) yields the same sequence as
\* (b, a) and as the other diagonal's corners (a.x, b.y), (b.x, a.y);
\* XY::rect_range_inclusive(a, b) returns the same list as (b, a).
C20_CornerOrder ==
    /\ last.op = "rect_range_inclusive" =>
          /\ last.ret = rect_range_inclusive(grid, last.b, last.a)
          /\ last.ret = rect_range_inclusive(grid, XY(last.a[1], last.b[2]),
                                             XY(last.b[1], last.a[2]))
          /\ last.ret = rect_range_inclusive(grid, XY(last.b[1], last.a[2]),
                                             XY(last.a[1], last.b[2]))
    /\ last.op = "XY::rect_range_inclusive" =>
          last.ret = XY_rect_range_inclusive(last.b, last.a)

\* A range has been taken from the bottom-right corner to the top-left one,
\* on a grid that holds both.
C20_Witness ==
    /\ last.op = "rect_range_inclusive"
    /\ last.a = XY(1, 1)
    /\ last.b = XY(0, 0)
    /\ InBounds(grid, XY(1, 1))
    /\ Len(last.ret) = 4
    /\ last.ret[1].xy = XY(0, 0)
    /\ last.ret[4].xy = XY(1, 1)
\* ------------------------------------------------- C21

\* The cell stored at column x, row y (both from 0) of g.
CellAt(g, x, y) == g.items[y * g.width + x + 1]

\* The iterator result ret holds n sequences of m cells each, the i-th cell
\* of the j-th sequence being at(j - 1, i - 1).
Yields(ret, n, m, at(_, _)) ==
    /\ ~ret.panic
    /\ Len(ret.seqs) = n
    /\ \A j \in 1..n :
          /\ Len(ret.seqs[j]) = m
          /\ \A i \in 1..m : ret.seqs[j][i] = at(j - 1, i - 1)

\* C21 as stated: on every grid, rows_iter yields height rows of width
\* cells, row y being the cells at (0,y)..(width-1,y); columns_iter yields
\* width columns of height cells, column x being the cells at
\* (x,0)..(x,height-1); neither changes the grid.
C21_IterationEveryGrid ==
    [][/\ last'.op = "rows_iter" =>
            /\ grid' = grid
            /\ ~last'.ret.panic
            /\ Yields(last'.ret, Len(grid.items) \div grid.width, grid.width,
                      LAMBDA y, x : CellAt(grid, x, y))
       /\ last'.op = "columns_iter" =>
            /\ grid' = grid
            /\ ~last'.ret.panic
            /\ Yields(last'.ret, grid.width, Len(grid.items) \div grid.width,
                      LAMBDA x, y : CellAt(grid, x, y))]_vars

\* C21 as amended: on every grid of width >= 1 (whatever point updates came
\* before the call), rows_iter yields height rows of width cells, row y
\* being the cells at (0,y)..(width-1,y) in x order, and columns_iter yields
\* width columns of height cells, column x being the cells at
\* (x,0)..(x,height-1) in y order; on a grid of width 0 rows_iter panics and
\* columns_iter yields nothing; neither changes the grid.
C21_Iteration ==
    [][/\ last'.op = "rows_iter" =>
            /\ grid' = grid
            /\ IF grid.width = 0 THEN last'.ret.panic
               ELSE Yields(last'.ret, Len(grid.items) \div grid.width, grid.width,
                           LAMBDA y, x : CellAt(grid, x, y))
       /\ last'.op = "columns_iter" =>
            /\ grid' = grid
            /\ IF grid.width = 0 THEN ~last'.ret.panic /\ last'.ret.seqs = <<>>
               ELSE Yields(last'.ret, grid.width, Len(grid.items) \div grid.width,
                           LAMBDA x, y : CellAt(grid, x, y))]_vars

\* columns_iter has returned the two columns of a 2 x 2 grid whose transpose
\* differs from it.
C21_Witness ==
    /\ last.op = "columns_iter"
    /\ grid.width = 2
    /\ Len(grid.items) = 4
    /\ grid.items[2] # grid.items[3]
    /\ ~last.ret.panic
    /\ last.ret.seqs = << <<grid.items[1], grid.items[3]>>,
                          <<grid.items[2], grid.items[4]>> >>
\* ------------------------------------------------- C22

\* The turns made are exactly those of path, from the vector v, without a
\* panic.
Turned(path) == last.op = "turns" /\ last.path = path

\* C22: for every XY v, turn_right(turn_left(v)) = v = turn_left(turn_right(v)),
\* four turn_left (or four turn_right) in a row give v back, a turn keeps
\* manhattan_dist, and turn_left maps (x, y) to (-y, x).
C22_QuarterTurns ==
    /\ (Turned(<<"left", "right">>) \/ Turned(<<"right", "left">>)) =>
          last.ret = XYResult(FALSE, last.v)
    /\ (Turned(<<"left", "left", "left", "left">>)
          \/ Turned(<<"right", "right", "right", "right">>)) =>
          last.ret = XYResult(FALSE, last.v)
    /\ Turned(<<"left">>) =>
          last.ret = XYResult(FALSE, XY(0 - last.v[2], last.v[1]))
    /\ (Turned(<<"left">>) \/ Turned(<<"right">>)) =>
          /\ ~last.ret.panic
          /\ ~manhattan_dist(last.build, last.v).panic
          /\ manhattan_dist(last.build, last.ret.xy) =
                manhattan_dist(last.build, last.v)

\* The vectors whose coordinates and whose manhattan_dist an i64 can negate
\* and hold.
Moderate(v) ==
    /\ v[1] # IntMin
    /\ v[2] # IntMin
    /\ (IF v[1] < 0 THEN 0 - v[1] ELSE v[1])
         + (IF v[2] < 0 THEN 0 - v[2] ELSE v[2]) <= IntMax

\* What holds of C22: the same, for the vectors that are Moderate.
C22_QuarterTurnsModerate ==
    (last.op = "turns" /\ Moderate(last.v)) => C22_QuarterTurns
\* ------------------------------------------------- C23

\* The tiles on the loop.
OnLoop == {trail[i] : i \in 1..Len(trail)}

\* The unit steps of the loop along y, each as (x, the lesser y).
VerticalSteps ==
    {XY(trail[i][1], min(trail[i][2], trail[i + 1][2])) :
        i \in {j \in 1..(Len(trail) - 1) : trail[j][1] = trail[j + 1][1]}}

\* A tile off the loop is enclosed when a ray going left from just below it
\* crosses the loop an odd number of times.
Enclosed(q) ==
    /\ q \notin OnLoop
    /\ Cardinality({e \in VerticalSteps : e[1] < q[1] /\ e[2] = q[2]}) % 2 = 1

EnclosedTiles ==
    {q \in {XY(x, y) : x \in (0 - MaxMoves * MaxAmount)..(MaxMoves * MaxAmount),
                       y \in (0 - MaxMoves * MaxAmount)..(MaxMoves * MaxAmount)} :
        Enclosed(q)}

\* The moves describe a loop: back on the origin, no tile dug twice and no
\* step retraced.
SimpleLoop ==
    /\ Closed
    /\ Len(trail) >= 5
    /\ Cardinality(OnLoop) = Len(trail) - 1

\* C23: for every closed, non-self-intersecting loop, part_one returns the
\* number of tiles on the loop plus the number of tiles it encloses.
C23_LagoonSize ==
    (last.op = "part_one" /\ SimpleLoop) =>
        last.ret = Cardinality(OnLoop) + Cardinality(EnclosedTiles)
\* ------------------------------------------------- C24

\* The worker is inside calc_total_power's while loop.
InLoop(w) == wpc[w] \in {"loop", "propagate"}

\* The worker has left the loop: its queue gave no beam.
Drained(w) == wpc[w] = "idle" /\ active_beams[w] = <<>>

\* C24: for every board and every initial beam, the queue of active beams of
\* calc_total_power becomes empty and the loop ends, beam loops included.
C24_BeamsDieOut ==
    (\E w \in Workers : InLoop(w)) ~> (\A w \in Workers : Drained(w))

\* On a board of four mirrors and splitters, a beam has just stopped on a
\* tile that was already entered in its direction, and no beam is left.
C24_Witness ==
    /\ last.op = "propagate_beam"
    /\ last.why = "already passed"
    /\ board.width = 2
    /\ Len(board.items) = 4
    /\ \A i \in 1..4 : board.items[i] # Ground
    /\ wpc["w1"] = "loop"
    /\ active_beams["w1"] = <<>>
\* ------------------------------------------------- C25

\* The greatest element of a non-empty set of numbers.
Greatest(S) == CHOOSE n \in S : \A k \in S : k <= n

\* The maximum part_two returns when the edge beams are run one after the
\* other, each from start to end.
SequentialMax ==
    LET edges == EdgeBeams(board)
    IN  IF edges = <<>> THEN None
        ELSE Some(Greatest({calc_total_power(board, edges[i]) : i \in 1..Len(edges)}))

\* Every energy grid in use has been written by one worker only, the one
\* whose run made it.
OneMutator ==
    \A g \in DOMAIN mutators :
        /\ Cardinality(mutators[g]) <= 1
        /\ \A w \in mutators[g] : energy_of[w] = g /\ InLoop(w)

\* C25: in part_two's parallel map, every run of calc_total_power makes and
\* writes its own energy grid only and the board is only read, so no grid is
\* written by two workers; and the maximum returned is, for every
\* interleaving, the maximum of the runs made one after the other.
C25_OneMutator ==
    /\ OneMutator
    /\ (pc = "returned" /\ last.op = "max") => last.ret = SequentialMax

\* Both workers are propagating a beam at once, each on its own energy
\* grid, and each has powered a tile of it.
C25_Witness ==
    /\ wpc["w1"] = "propagate"
    /\ wpc["w2"] = "propagate"
    /\ energy_of["w1"] # energy_of["w2"]
    /\ PoweredCount(energy_grids[energy_of["w1"]]) >= 1
    /\ PoweredCount(energy_grids[energy_of["w2"]]) >= 1
    /\ mutators[energy_of["w1"]] = {"w1"}
    /\ mutators[energy_of["w2"]] = {"w2"}
\* ------------------------------------------------- C26

\* The number of rocks of line at the indices a..b.
Rocks(line, a, b) == Cardinality({k \in a..b : line[k] = ROCK})

\* a..b is a segment of v: it holds no obstacle and has an end of the line
\* or an obstacle on either side.
Segment(v, a, b) ==
    /\ a <= b
    /\ \A k \in a..b : v[k] # OBSTACLE
    /\ a = 1 \/ v[a - 1] = OBSTACLE
    /\ b = Len(v) \/ v[b + 1] = OBSTACLE

\* C26: move_all_the_way maps a line to a line of the same length in which
\* every obstacle keeps its index, every segment keeps its number of rocks
\* and has them at its lowest indices; so it is idempotent, and move_north
\* applied twice gives what move_north applied once gives.
C26_Tilt ==
    /\ last.op = "move_all_the_way" =>
          LET v == last.v
              r == last.ret.tiles
          IN  /\ ~last.ret.panic
              /\ Len(r) = Len(v)
              /\ \A k \in 1..Len(v) : (v[k] = OBSTACLE) <=> (r[k] = OBSTACLE)
              /\ \A a \in 1..Len(v), b \in 1..Len(v) :
                    Segment(v, a, b) =>
                       /\ Rocks(r, a, b) = Rocks(v, a, b)
                       /\ \A k \in a..b :
                             r[k] = (IF k < a + Rocks(v, a, b) THEN ROCK ELSE GROUND)
              /\ move_all_the_way(r) = last.ret
    /\ last.op = "move_north" =>
          IF last.ret.tag = "Ok" THEN move_north(last.ret.grid) = last.ret
          ELSE last.ret = Panicked

\* A line with a rock to move in each of its two segments has been moved.
C26_Witness ==
    /\ last.op = "move_all_the_way"
    /\ last.v = <<GROUND, ROCK, OBSTACLE, GROUND, ROCK>>
    /\ last.ret = Tiles(FALSE, <<ROCK, GROUND, OBSTACLE, ROCK, GROUND>>)
\* ------------------------------------------------- C27

\* C27: the flip-flop leaves is_on as it was and emits nothing on a High
\* pulse; on a Low pulse it toggles is_on and emits one pulse to each
\* output, High when it turned on and Low when it turned off; so is_on holds
\* exactly when the number of Low pulses handled is odd.
C27_FlipFlop ==
    /\ flipflop.is_on <=> (lows % 2 = 1)
    /\ last.op = "handle" =>
          /\ flipflop.name = last.was.name
          /\ flipflop.outputs = last.was.outputs
          /\ last.signal = High =>
                /\ flipflop.is_on = last.was.is_on
                /\ last.ret = <<>>
          /\ last.signal = Low =>
                /\ flipflop.is_on = ~last.was.is_on
                /\ Len(last.ret) = Len(flipflop.outputs)
                /\ \A i \in 1..Len(last.ret) :
                      /\ last.ret[i].target = flipflop.outputs[i]
                      /\ last.ret[i].source = flipflop.name
                      /\ last.ret[i].signal = (IF flipflop.is_on THEN High ELSE Low)

\* The flip-flop, on after three Low pulses, has just left a High pulse
\* alone.
C27_Witness ==
    /\ last.op = "handle"
    /\ last.signal = High
    /\ lows = 3
    /\ flipflop.is_on
    /\ Len(flipflop.outputs) = 2
\* ------------------------------------------------- C28

\* The labels of a box, in order.
LabelsOf(box) == [i \in 1..Len(box) |-> box[i][1]]

\* seq without its element at index p.
Without(seq, p) == SubSeq(seq, 1, p - 1) \o SubSeq(seq, p + 1, Len(seq))

\* C28: each label occurs at most once, and only in the box of its hash,
\* which is in 0..255; an insert of a label that is there replaces the focal
\* length in the same slot, an insert of a new label appends, and a remove
\* deletes the label's lens and keeps the others in order (nothing when the
\* label is absent).
C28_LensBoxes ==
    /\ pc # "panicked"
    /\ Len(boxes) = NumBoxes
    /\ \A label \in Labels : ascii_hash(label) \in 0..255
    /\ \A b \in 1..Len(boxes) : \A i \in 1..Len(boxes[b]) :
          /\ ascii_hash(boxes[b][i][1]) = b - 1
          /\ \A j \in 1..Len(boxes[b]) : boxes[b][i][1] = boxes[b][j][1] => i = j
    /\ last.op = "step" =>
          LET label == last.step.label
              b == ascii_hash(label) + 1
              old == last.before[b]
              new == boxes[b]
              at == {i \in 1..Len(old) : old[i][1] = label}
          IN  /\ \A c \in 1..Len(boxes) : c # b => boxes[c] = last.before[c]
              /\ last.step.operation.kind = "Insert" =>
                    LET lens == <<label, last.step.operation.focal_length>>
                    IN  IF at = {} THEN new = Append(old, lens)
                        ELSE /\ Len(new) = Len(old)
                             /\ \A i \in 1..Len(old) :
                                   new[i] = (IF i \in at THEN lens ELSE old[i])
              /\ last.step.operation.kind = "Remove" =>
                    IF at = {} THEN new = old
                    ELSE \E p \in at : new = Without(old, p)

\* Three lenses were in one box, and the middle one has been removed.
C28_Witness ==
    /\ last.op = "step"
    /\ last.step.operation.kind = "Remove"
    /\ \E b \in {ascii_hash(last.step.label) + 1} :
          /\ Len(last.before[b]) = 3
          /\ last.before[b][2][1] = last.step.label
          /\ boxes[b] = <<last.before[b][1], last.before[b][3]>>

\* A lens that was first of three in its box has a new focal length, in the
\* same slot.
C28_WitnessReplace ==
    /\ last.op = "step"
    /\ last.step.operation.kind = "Insert"
    /\ \E b \in {ascii_hash(last.step.label) + 1} :
          /\ Len(last.before[b]) = 3
          /\ last.before[b][1][1] = last.step.label
          /\ last.before[b][1][2] # last.step.operation.focal_length
          /\ boxes[b][1] = <<last.step.label, last.step.operation.focal_length>>
\* ------------------------------------------------- C29

\* C29: when find returns a cell and its coordinate, the coordinate is
\* inside [0, width) x [0, height) and get of it returns that cell.
C29_FindGetAgree ==
    (last.op = "find" /\ last.ret.kind = "some") =>
        /\ InBounds(grid, last.ret.xy)
        /\ get(grid, last.ret.xy) = RefItem(last.ret.idx)

\* C29, on the grids whose buffer is a whole number of rows.
C29_FindGetAgreeWholeRows ==
    (grid.width >= 1 /\ Len(grid.items) % grid.width = 0) => C29_FindGetAgree
\* ------------------------------------------------- C30

\* p is within the corners lower and upper, on both axes.
Within(p, lower, upper) ==
    /\ lower[1] <= p[1] /\ p[1] <= upper[1]
    /\ lower[2] <= p[2] /\ p[2] <= upper[2]

\* C30: every inserted coordinate is within the corners, and so is the
\* origin; an insert moves no corner inward; get of a coordinate that was
\* never inserted returns the filler.
C30_SparseCorners ==
    /\ \A p \in inserted \cup {XY(0, 0)} :
          Within(p, sparse.lower_corner, sparse.upper_corner)
    /\ DOMAIN sparse.items = inserted
    /\ last.op = "insert" =>
          /\ Within(sparse.lower_corner, sparse.lower_corner, last.before.lower_corner)
          /\ Within(sparse.upper_corner, last.before.upper_corner, sparse.upper_corner)
    /\ (last.op = "get" /\ last.at \notin inserted) => last.ret = sparse.filler

\* Two inserts away from the origin have pushed both corners out, the
\* second one the lower corner on the y axis and the upper one on the x axis.
C30_Witness ==
    /\ last.op = "insert"
    /\ last.at = XY(1, -1)
    /\ last.before.lower_corner = XY(-1, 0)
    /\ last.before.upper_corner = XY(0, 1)
    /\ sparse.lower_corner = XY(-1, -1)
    /\ sparse.upper_corner = XY(1, 1)
    /\ XY(0, 0) \notin inserted

====
